---- MODULE Spec2Model ----
(***************************************************************************)
(* Model of the fish-delivery platformer: the multiplayer game screen      *)
(* (src/src/components/MultiplayerGame.tsx) of one client "A" against the  *)
(* shared room store, and the single-player screen (Game.tsx).             *)
(*                                                                         *)
(* React state is modelled twice: the variable named like the state hook   *)
(* holds the latest value (what the next render will see), and the record  *)
(* r holds the values of the last render, which are the values the         *)
(* callbacks created by that render close over.  A scheduled animation     *)
(* frame callback carries the closure of the render that created it.       *)
(***************************************************************************)
EXTENDS Integers, Sequences, FiniteSets, TLC

\* ------------------------------------------------------------------ bounds
MaxFish == 2          \* fish_collected is followed up to this value
MaxRound == 2         \* currentRound is followed up to this value
MaxLevelPick == 2     \* Math.random() picks among the first MaxLevelPick levels
MaxDelivers == 2      \* deliverFish calls in flight at once
MaxTimers == 1        \* delayed round advances pending at once
MaxLoads == 1         \* loadPlayers reads in flight at once
MaxFeed == 1          \* undelivered room notifications
MaxReports == 2       \* position updates in flight at once
MaxClock == 200       \* milliseconds of Date.now() that are followed
LateTicks == 1        \* seconds before the timeout in which the player moves
MaxPhysLevel == 1     \* last level of Game whose physics is followed
MultiLevel == 3       \* index of the level of MultiplayerGame whose physics is followed
MaxOtherTicks == 8    \* ticks of the other client's loop that are followed
MaxOtherReports == 2  \* position reports of the other client that are followed
MaxRooms == 2         \* rows of the rooms table
NumClients == 2       \* clients whose lobby is followed
NumCodes == 3         \* texts that generate_room_code can draw

\* ------------------------------------------------------- program constants
ROUND_TIME == 60
THROTTLE_MS == 100
ClockStart == 10 * THROTTLE_MS   \* Date.now() when the page opens
ClockSteps == {THROTTLE_MS \div 2, THROTTLE_MS \div 2 - 1}   \* time between two callbacks
NumLevels == 5
KITTY_W == 40
KITTY_H == 40

Me == "A"
Other == "B"
Users == {Me, Other}
Null == "null"
Absent == -1          \* a user that is not in a loaded player list / null
NoFish == -1          \* carriedFish === null

Min(a, b) == IF a < b THEN a ELSE b

\* -------------------------------------------------------------- level data
\* levelConfigs[l].fishes: every level holds exactly one fish
LevelFishBox(l) ==
  IF l = 0 THEN [x |-> 375, y |-> 220, width |-> 25, height |-> 20]
  ELSE IF l = 3 THEN [x |-> 375, y |-> 140, width |-> 25, height |-> 20]
  ELSE [x |-> 375, y |-> 110, width |-> 25, height |-> 20]

scratchingPost == [x |-> 375, y |-> 40, width |-> 50, height |-> 60]

FreshFish == [collected |-> FALSE, carriedBy |-> Null]

InitLevelConfigs == [l \in 0..(NumLevels - 1) |-> <<FreshFish>>]

Levels == 0..(Min(MaxLevelPick, NumLevels) - 1)

\* positions the physics step may leave the player at in a frame
KittyStart == [x |-> 100, y |-> 1120]

KittySpots ==
  { KittyStart,     \* spawn, touches nothing
    [x |-> 380, y |-> 190],      \* on the fish of the first level (y = 220)
    [x |-> 380, y |-> 80] }      \* on the post and on a fish at y = 110

KittyBox(k) == [x |-> k.x, y |-> k.y, width |-> KITTY_W, height |-> KITTY_H]

checkCollision(rect1, rect2) ==
  /\ rect1.x < rect2.x + rect2.width
  /\ rect1.x + rect1.width > rect2.x
  /\ rect1.y < rect2.y + rect2.height
  /\ rect1.y + rect1.height > rect2.y

\* ------------------------------------------------- single player: level data
MaxScore == 100       \* score is followed up to this value

START_TIME == 90      \* setTimeLeft(90) of startGame
RESET_TIME == 60      \* setTimeLeft(60) of resetGame
LEVEL_BONUS_TIME == 30
FISH_SCORE == 10
DELIVERY_BONUS == 20
LastLevel == 2        \* levels.current.length - 1

Box(x, y, w, h) == [x |-> x, y |-> y, width |-> w, height |-> h]

\* levels.current[l].fishes
LevelFishes(l) ==
  IF l = 0 THEN <<Box(250, 420, 25, 20), Box(530, 370, 25, 20)>>
  ELSE IF l = 1 THEN <<Box(430, 120, 25, 20), Box(180, 220, 25, 20),
                       Box(630, 170, 25, 20)>>
  ELSE <<Box(530, 170, 25, 20), Box(230, 120, 25, 20), Box(480, 70, 25, 20),
         Box(680, 320, 25, 20)>>

\* levels.current[l].scratcher
LevelScratcher(l) ==
  IF l = 0 THEN Box(700, 530, 60, 50)
  ELSE IF l = 1 THEN Box(720, 530, 60, 50)
  ELSE Box(50, 530, 60, 50)

\* levels.current[l].playerStart
PlayerStart(l) ==
  IF l = 0 THEN [x |-> 50, y |-> 530]
  ELSE IF l = 1 THEN [x |-> 30, y |-> 530]
  ELSE [x |-> 720, y |-> 530]

SKittyStart == [x |-> 100, y |-> 300]

\* fishes.current after firstLevel.fishes.map(f => ({...f, collected: false}))
FreshLevel(l) == [i \in 1..Len(LevelFishes(l)) |-> FALSE]

\* positions the physics step may leave the player at in a frame of level l:
\* the level start, on each fish, on the scratcher
SKittySpots(l) ==
  {PlayerStart(l), [x |-> LevelScratcher(l).x, y |-> LevelScratcher(l).y]}
    \cup {[x |-> LevelFishes(l)[i].x, y |-> LevelFishes(l)[i].y] :
            i \in 1..Len(LevelFishes(l))}

\* the values gameLoop closes over; it is re-created when gameStatus changes
Loop(gs, cf, hrs) ==
  [gameStatus |-> gs, carriedFish |-> cf, hasReachedScratcher |-> hrs]

SRendered(started, gs, hrs, lvl, loop) ==
  [gameStarted |-> started, gameStatus |-> gs, hasReachedScratcher |-> hrs,
   currentLevel |-> lvl, loop |-> loop]

SFirstRender == SRendered(FALSE, "playing", FALSE, 0, Loop("playing", 0, FALSE))

\* ------------------------------------------------------------------- state
VARIABLES
  screen,        \* "menu" | "multi" | "single": the game screen that is mounted
  \* shared store (rooms, room_players)
  dbStatus,      \* rooms.status
  dbFish,        \* room_players.fish_collected per user
  dbOnline,      \* room_players.is_online per user
  creator,       \* rooms.created_by (row level security: only they update rooms)
  \* change feed and requests in flight
  roomFeed,      \* rooms notifications not yet delivered to A (payload.new.status)
  playerFeed,    \* a room_players notification is waiting for A's handler
  loads,         \* loadPlayers reads whose response has not arrived (snapshots)
  delivers,      \* deliverFish calls in flight
  timers,        \* setTimeout(..., 3000) callbacks of deliverFish, in firing order
  startPhase,    \* startGame: "idle" | "written"
  endPhase,      \* endGame: "idle" | "called" | "written"
  \* React state of MultiplayerGame (latest values)
  room, players, currentPlayer, gameStarted, timeLeft, currentRound,
  carriedFish, currentLevel,
  playersDirty,  \* setPlayers ran since the last render (new array identity)
  cpDirty,       \* setCurrentPlayer ran since the last render (new object identity)
  \* refs of MultiplayerGame
  levelConfigs,  \* the fish objects of the level catalog initializeLevel closes over
  fishes,        \* fishes.current
  kitty,         \* kitty.current: the player's position after the last frame
  shared,        \* fishes.current holds the catalog's own fish objects
  raf,           \* scheduled animation frame callbacks, in firing order
  r,             \* values of the last render
  \* history variables
  sessionOver,   \* endGame completed and startGame has not run since
  carryBase,     \* A's persisted fish_collected when the last fish was picked up
  carryTimers,   \* delayed advances scheduled since the last fish was picked up
  \* React state of Game (single player; latest values)
  score, fishCount, sCarriedFish, sTimeLeft, sCurrentLevel, gameStatus,
  sGameStarted, hasReachedScratcher,
  sDirty,        \* setScore, setFishCount or setTimeLeft changed a value since the last render
  \* refs of Game
  sFishes,       \* fishes.current: collected flag per fish of the level
  sKitty,        \* kitty.current
  sDone,         \* history: the levels that nextLevel was called for since startGame
  sRaf,          \* scheduled animation frame callbacks of Game
  sr,            \* values of the last render of Game
  \* position reports of MultiplayerGame
  now,                 \* Date.now()
  lastPositionUpdate,  \* lastPositionUpdate.current
  reports,             \* room_players position updates in flight
  sentAt,        \* history: Date.now() of the latest report this mount sent, 0 if none
  lastCall,      \* history: "none" | "sent" | "dropped", the latest updatePlayerPosition call
  \* the physics of the loops, tick by tick (lengths in tenths of a pixel)
  pm,            \* "off" | "single" | "multi": the loop whose player is followed
  pl,            \* the level whose platforms are in platforms.current
  pk,            \* kitty.current: x, y, vx, vy
  pt,            \* history: the keys held in the last tick and what the tick did
  air,           \* history: "none" | "held" | "released": a jump impulse was applied and the
                 \* player has not landed since, with the jump key held ever since or not
  ok,            \* the other client's kitty.current: x, y, vx, vy in FineScale units
  oTicks,        \* ticks of the other client's loop so far
  oSent,         \* history: the positions the other client's accepted reports carried
  dbPos,         \* room_players.position_x, position_y of the other player's row, as read
  seen,          \* position_x, position_y of the other player in the players cache
  \* the lobby
  lRooms,        \* the rooms table: code, status, max_players and the room_players rows
                 \* (rows, on: followed clients with a row / an online row; res, resOn:
                 \* the rows of other users)
  lc             \* the lobby of each followed client: its handler's position, its
                 \* flags, its rooms list and the room it entered

mpState == <<room, players, currentPlayer, gameStarted, timeLeft, currentRound,
             carriedFish, currentLevel, playersDirty, cpDirty>>
mpRefs == <<levelConfigs, fishes, shared, kitty>>
dbVars == <<dbStatus, dbFish, dbOnline, creator>>
netVars == <<roomFeed, playerFeed, loads, delivers, timers, startPhase, endPhase>>
histVars == <<sessionOver, carryBase, carryTimers>>

spVars == <<score, fishCount, sCarriedFish, sTimeLeft, sCurrentLevel, gameStatus,
            sGameStarted, hasReachedScratcher, sDirty, sFishes, sKitty, sDone, sRaf, sr>>

thVars == <<now, lastPositionUpdate, reports, sentAt, lastCall>>
phVars == <<pm, pl, pk, pt, air>>
farVars == <<ok, oTicks, oSent, dbPos, seen>>

\* the lobby: the rooms table with the room_players rows of each room, and the
\* lobby component of each client
lobVars == <<lRooms, lc>>

vars == <<screen, dbVars, netVars, mpState, mpRefs, raf, r, histVars, spVars, thVars, phVars,
          farVars, lobVars>>

\* the values a render publishes to the callbacks it creates
Rendered(gs, cf, cp, rm, rnd, dfr) ==
  [gameStarted |-> gs, carriedFish |-> cf, currentPlayer |-> cp, room |-> rm,
   currentRound |-> rnd, dfRound |-> dfr]

FirstRender == Rendered(FALSE, NoFish, Absent, Null, 1, 1)

NoPlayers == [u \in Users |-> Absent]

\* state of a freshly mounted MultiplayerGame (useState / useRef initial values)
ResetMulti ==
  /\ room' = Null /\ players' = NoPlayers /\ currentPlayer' = Absent
  /\ gameStarted' = FALSE /\ timeLeft' = ROUND_TIME /\ currentRound' = 1
  /\ carriedFish' = NoFish /\ currentLevel' = 0
  /\ playersDirty' = FALSE /\ cpDirty' = FALSE
  /\ levelConfigs' = InitLevelConfigs /\ fishes' = <<>> /\ shared' = FALSE
  /\ kitty' = KittyStart
  /\ raf' = <<>> /\ r' = FirstRender
  /\ sessionOver' = FALSE
  /\ carryBase' = dbFish[Me]
  /\ carryTimers' = 0
  /\ lastPositionUpdate' = 0 /\ sentAt' = 0 /\ lastCall' = "none"

\* ------------------------------------------------------ reported positions
\* Positions on their way through room_players are counted in millionths of a
\* pixel, so that six steps of friction (vx *= 0.8) are exact.
FineScale == 1000000

\* position_x REAL NOT NULL DEFAULT 100, position_y REAL NOT NULL DEFAULT 300
DefaultPos == [x |-> 100 * FineScale, y |-> 300 * FineScale]

\* the other client's kitty.current when its component mounts
FineStart ==
  [x |-> KittyStart.x * FineScale, y |-> KittyStart.y * FineScale, vx |-> 0, vy |-> 0]

RECURSIVE Pow2(_)
Pow2(n) == IF n = 0 THEN 1 ELSE 2 * Pow2(n - 1)

\* REAL is a binary floating-point number with a significand of 24 bits: for
\* 2^e <= v < 2^(e+1) pixels it holds a multiple of 2^(e-23) pixels, that is of
\* 15625 / 2^(17-e) millionths
Binade(v) == CHOOSE e \in 0..10 : Pow2(e) * FineScale <= v /\ v < Pow2(e + 1) * FineScale

\* the multiple the assignment of v rounds to (no v is half-way: 15625 is odd)
Significand(v) ==
  LET m == Pow2(17 - Binade(v))
  IN (v \div 15625) * m + (((v % 15625) * m + 7812) \div 15625)

SameReal(v, w) ==
  /\ v >= FineScale /\ w >= FineScale
  /\ Binade(v) = Binade(w) /\ Significand(v) = Significand(w)

RECURSIVE Pow10(_)
Pow10(n) == IF n = 0 THEN 1 ELSE 10 * Pow10(n - 1)

\* the number a select returns for a REAL column that was assigned v: the
\* decimal with the fewest digits that REAL holds as the same value (v itself
\* when no decimal with fewer digits does)
RECURSIVE Shortest(_, _)
Shortest(v, k) ==
  LET step == Pow10(k)
      below == (v \div step) * step
  IN IF k = 0 \/ v % step = 0 THEN v
     ELSE IF SameReal(below, v) THEN below
     ELSE IF SameReal(below + step, v) THEN below + step
     ELSE Shortest(v, k - 1)

Real4(v) == Shortest(v, 8)

\* the followed clients
Clients == 1..NumClients

\* generate_room_code draws six characters and makes them upper case; a code
\* is one of NumCodes texts in one of two spellings
Code(k, up) == [k |-> k, upper |-> up]
NoCode == Code(0, TRUE)

\* the lobby component as it mounts
IdleClient ==
  [pc |-> "idle", room |-> 0, full |-> 0, code |-> NoCode, toast |-> "none",
   isCreating |-> FALSE, isJoining |-> FALSE, at |-> 0, list |-> {}]

\* the keys of the last tick and what the tick did; NoTick before the first tick
NoTick == [dir |-> "unset", jump |-> FALSE, imp |-> FALSE, fired |-> {}, fell |-> FALSE]

\* state of a freshly mounted Game (useState / useRef initial values)
ResetSingle ==
  /\ score' = 0 /\ fishCount' = 0 /\ sCarriedFish' = 0
  /\ sTimeLeft' = START_TIME /\ sCurrentLevel' = 0
  /\ gameStatus' = "playing" /\ sGameStarted' = FALSE
  /\ hasReachedScratcher' = FALSE /\ sDirty' = FALSE
  /\ sFishes' = FreshLevel(0) /\ sKitty' = SKittyStart /\ sDone' = {}
  /\ sRaf' = <<>> /\ sr' = SFirstRender

\* the state before a room is entered, but for who created the room
InitButRoom ==
  /\ screen = "menu"
  /\ dbStatus = "waiting"
  /\ dbFish = [u \in Users |-> 0]
  /\ roomFeed = <<>> /\ playerFeed = FALSE /\ loads = {}
  /\ delivers = <<>> /\ timers = <<>>
  /\ startPhase = "idle" /\ endPhase = "idle"
  /\ room = Null /\ players = NoPlayers /\ currentPlayer = Absent
  /\ gameStarted = FALSE /\ timeLeft = ROUND_TIME /\ currentRound = 1
  /\ carriedFish = NoFish /\ currentLevel = 0
  /\ playersDirty = FALSE /\ cpDirty = FALSE
  /\ levelConfigs = InitLevelConfigs /\ fishes = <<>> /\ shared = FALSE
  /\ kitty = KittyStart
  /\ raf = <<>> /\ r = FirstRender
  /\ sessionOver = FALSE
  /\ carryBase = 0
  /\ carryTimers = 0
  /\ score = 0 /\ fishCount = 0 /\ sCarriedFish = 0
  /\ sTimeLeft = START_TIME /\ sCurrentLevel = 0
  /\ gameStatus = "playing" /\ sGameStarted = FALSE
  /\ hasReachedScratcher = FALSE /\ sDirty = FALSE
  /\ sFishes = FreshLevel(0) /\ sKitty = SKittyStart /\ sDone = {}
  /\ sRaf = <<>> /\ sr = SFirstRender
  /\ now = ClockStart
  /\ lastPositionUpdate = 0 /\ reports = 0 /\ sentAt = 0 /\ lastCall = "none"
  /\ lRooms = <<>> /\ lc = [c \in Clients |-> IdleClient]
  /\ ok = FineStart /\ oTicks = 0 /\ oSent = {}
  /\ dbPos = DefaultPos /\ seen = DefaultPos

\* the room was created by A, whose createRoom inserted A's online row
InitButLoop ==
  /\ InitButRoom
  /\ creator = Me
  /\ dbOnline = [u \in Users |-> u = Me]

\* no loop runs before a game is started
Init ==
  /\ InitButLoop
  /\ pm = "off" /\ pl = 0 /\ pk = [x |-> 0, y |-> 0, vx |-> 0, vy |-> 0]
  /\ pt = NoTick /\ air = "none"

\* ----------------------------------------------------------------- helpers
Max(S) == CHOOSE m \in S : \A n \in S : n <= m

RemoveAt(q, i) == [j \in 1..(Len(q) - 1) |-> IF j < i THEN q[j] ELSE q[j + 1]]

\* supabase.from('room_players').select().eq('is_online', true)
OnlinePlayers == [u \in Users |-> IF dbOnline[u] THEN dbFish[u] ELSE Absent]

\* rooms.update({status}) by A: the row level security policy lets only the
\* creator's update change the row; every change is notified on the room channel
RoomUpdate(s) ==
  IF creator = Me
    THEN /\ Len(roomFeed) < MaxFeed
         /\ dbStatus' = s
         /\ roomFeed' = Append(roomFeed, s)
    ELSE UNCHANGED <<dbStatus, roomFeed>>

\* fishes.current[i].<field> = ...: the object may be the catalog's own
WriteFish(fs, i, f) == [fs EXCEPT ![i + 1] = f]

CatalogAfter(i, f) ==
  IF shared THEN [levelConfigs EXCEPT ![currentLevel] = WriteFish(@, i, f)]
  ELSE levelConfigs

\* const allPlayersCollected = players.every(p => p.fish_collected >= currentRound)
allPlayersCollected(ps, rnd) ==
  \A u \in Users : ps[u] # Absent => ps[u] >= rnd

playersLength(ps) == Cardinality({u \in Users : ps[u] # Absent})

\* (variant of wantsFish that does not look at the player's position)
wantsFishAnywhere(fish, cl, box, k) ==
  /\ ~fish.collected
  /\ fish.carriedBy = Null
  /\ cl.carriedFish = NoFish

\* (variant of throttled with a window that is one millisecond short)
throttledShort(t, last) == t - last < THROTTLE_MS - 1

\* the condition under which the loop calls collectFish(index) for a fish
wantsFish(fish, cl, box, k) ==
  /\ ~fish.collected
  /\ fish.carriedBy = Null
  /\ cl.carriedFish = NoFish
  /\ checkCollision(KittyBox(k), box)

\* collectFish's own guard
collectFishGuard(cl) == cl.currentPlayer # Absent /\ cl.carriedFish = NoFish

\* deliverFish's own guard
deliverFishGuard(cl) == cl.currentPlayer # Absent /\ cl.carriedFish # NoFish

\* the loop's condition for calling deliverFish()
wantsDelivery(cl, k) ==
  cl.carriedFish # NoFish /\ checkCollision(KittyBox(k), scratchingPost)

\* updatePlayerPosition's early return: if (now - lastPositionUpdate.current < 100)
throttled(t, last) == t - last < THROTTLE_MS

\* cancelAnimationFrame(animationRef.current)
Cancel(q) == SelectSeq(q, LAMBDA e : ~e.cur)

\* animationRef.current = requestAnimationFrame(gameLoop)
Request(q, cl) ==
  Append([j \in 1..Len(q) |-> [q[j] EXCEPT !.cur = FALSE]], [cur |-> TRUE, cl |-> cl])

\* ----------------------------------------------------------- navigation
\* the lobby's join (the player's row is set online) and onJoinRoom:
\* MultiplayerGame mounts, loadRoomData() and loadPlayers() are issued and the
\* room channel is subscribed
OpenMulti ==
  /\ screen = "menu"
  /\ screen' = "multi"
  /\ ResetMulti
  /\ dbOnline' = [dbOnline EXCEPT ![Me] = TRUE]
  /\ roomFeed' = <<dbStatus>>
  /\ playerFeed' = FALSE
  /\ loads' = {[list |-> [OnlinePlayers EXCEPT ![Me] = dbFish[Me]], handler |-> FALSE,
               pos |-> dbPos]}
  /\ timers' = <<>>
  /\ startPhase' = "idle" /\ endPhase' = "idle"
  /\ UNCHANGED <<dbStatus, dbFish, creator, delivers, now, reports>>
  /\ UNCHANGED <<spVars, phVars, farVars, lobVars>>

\* onLeaveRoom ("Mudar"): the component unmounts; the effect cleanups run
\* (removeChannel, clearInterval, cancelAnimationFrame)
CloseMulti ==
  /\ screen = "multi"
  /\ screen' = "menu"
  /\ ResetMulti
  /\ roomFeed' = <<>>
  /\ playerFeed' = FALSE
  /\ loads' = {}
  /\ timers' = <<>>
  /\ startPhase' = "idle" /\ endPhase' = "idle"
  /\ delivers' = SelectSeq(delivers, LAMBDA d : d.ph = "sent")
  /\ UNCHANGED <<dbVars, now, reports>>
  /\ UNCHANGED <<spVars, phVars, farVars, lobVars>>

\* (variant of OwnEntity: a handler that stops the local player)
OwnEntityStopped == pk' = [pk EXCEPT !.vx = 0, !.vy = 0] /\ UNCHANGED <<pm, pl, pt, air>>

\* the handlers of the two channels and loadPlayers assign the caches of the
\* room and of the players only: kitty.current is not among their assignments
OwnEntity == UNCHANGED phVars

\* ------------------------------------------------------------ change feed
\* rooms channel handler: setRoom(payload.new)
RoomNotify ==
  /\ screen = "multi"
  /\ roomFeed # <<>>
  /\ room' = Head(roomFeed)
  /\ roomFeed' = Tail(roomFeed)
  /\ UNCHANGED <<screen, dbVars, playerFeed, loads, delivers, timers, startPhase,
                 endPhase, players, currentPlayer, gameStarted, timeLeft,
                 currentRound, carriedFish, currentLevel, playersDirty, cpDirty,
                 mpRefs, raf, r, histVars>>
  /\ UNCHANGED <<spVars, thVars, farVars, lobVars>>
  /\ OwnEntity

\* room_players channel handler, up to the select of loadPlayers()
PlayerNotifyWithin(n) ==
  /\ screen = "multi"
  /\ playerFeed
  /\ Cardinality(loads) < n
  /\ playerFeed' = FALSE
  /\ loads' = loads \cup {[list |-> OnlinePlayers, handler |-> TRUE, pos |-> dbPos]}
  /\ UNCHANGED <<screen, dbVars, roomFeed, delivers, timers, startPhase, endPhase,
                 mpState, mpRefs, raf, r, histVars>>
  /\ UNCHANGED <<spVars, thVars, farVars, lobVars>>
  /\ OwnEntity

\* the handler with at most MaxLoads reads in flight
PlayerNotify == PlayerNotifyWithin(MaxLoads)

\* (variant of LoadApply: the update of the own row raises no notification)
LoadApplyUnnotified(load) ==
  /\ screen = "multi"
  /\ load \in loads
  /\ loads' = loads \ {load}
  /\ players' = load.list
  /\ seen' = load.pos
  /\ playersDirty' = TRUE
  /\ IF load.list[Me] # Absent
       THEN /\ currentPlayer' = load.list[Me]
            /\ cpDirty' = TRUE
            /\ dbOnline' = [dbOnline EXCEPT ![Me] = TRUE]
            /\ UNCHANGED playerFeed
       ELSE UNCHANGED <<currentPlayer, cpDirty, dbOnline, playerFeed>>
  /\ IF \/ playersLength(load.list) = 0
        \/ load.handler /\ \A u \in Users : ~dbOnline'[u]
       THEN RoomUpdate("completed")
       ELSE UNCHANGED <<dbStatus, roomFeed>>
  /\ UNCHANGED <<screen, dbFish, creator, delivers, timers, startPhase,
                 endPhase, room, gameStarted, timeLeft, currentRound, carriedFish,
                 currentLevel, mpRefs, raf, r, histVars>>
  /\ UNCHANGED <<spVars, thVars, ok, oTicks, oSent, dbPos, lobVars>>
  /\ OwnEntity

\* loadPlayers() from the response of its select on: setPlayers, setCurrentPlayer,
\* update({is_online: true}) of the own row (which the feed notifies), and the
\* "no players online" close of the room.  A user missing from the list already
\* has a row (UNIQUE(room_id, user_id)), so the insert fails and nothing is set.
\* When the read was issued by the room_players handler, the handler then reads
\* the online players again and closes the room when there are none.
LoadApply(load) ==
  /\ screen = "multi"
  /\ load \in loads
  /\ loads' = loads \ {load}
  /\ players' = load.list
  /\ seen' = load.pos
  /\ playersDirty' = TRUE
  /\ IF load.list[Me] # Absent
       THEN /\ currentPlayer' = load.list[Me]
            /\ cpDirty' = TRUE
            /\ dbOnline' = [dbOnline EXCEPT ![Me] = TRUE]
            /\ playerFeed' = TRUE
       ELSE UNCHANGED <<currentPlayer, cpDirty, dbOnline, playerFeed>>
  /\ IF \/ playersLength(load.list) = 0
        \/ load.handler /\ \A u \in Users : ~dbOnline'[u]
       THEN RoomUpdate("completed")
       ELSE UNCHANGED <<dbStatus, roomFeed>>
  /\ UNCHANGED <<screen, dbFish, creator, delivers, timers, startPhase,
                 endPhase, room, gameStarted, timeLeft, currentRound, carriedFish,
                 currentLevel, mpRefs, raf, r, histVars>>
  /\ UNCHANGED <<spVars, thVars, ok, oTicks, oSent, dbPos, lobVars>>
  /\ OwnEntity

\* leaveRoom ("Sair") up to its awaited update({is_online: false}); the
\* component unmounts when onLeaveRoom runs (CloseMulti)
LeaveRoom ==
  /\ screen = "multi"
  /\ dbOnline[Me]
  /\ dbOnline' = [dbOnline EXCEPT ![Me] = FALSE]
  /\ playerFeed' = TRUE
  /\ UNCHANGED <<screen, dbStatus, dbFish, creator, roomFeed, loads, delivers,
                 timers, startPhase, endPhase, mpState, mpRefs, raf, r, histVars>>
  /\ UNCHANGED <<spVars, thVars, phVars, farVars, lobVars>>

\* another client's player delivers a fish / joins or leaves the room
OtherDelivers ==
  /\ dbOnline[Other]
  /\ dbFish[Other] < MaxFish
  /\ dbFish' = [dbFish EXCEPT ![Other] = @ + 1]
  /\ playerFeed' = (screen = "multi")
  /\ UNCHANGED <<screen, dbStatus, dbOnline, creator, roomFeed, loads, delivers,
                 timers, startPhase, endPhase, mpState, mpRefs, raf, r, histVars>>
  /\ UNCHANGED <<spVars, thVars, phVars, farVars, lobVars>>

OtherOnline ==
  /\ dbOnline' = [dbOnline EXCEPT ![Other] = ~@]
  /\ playerFeed' = (screen = "multi")
  /\ UNCHANGED <<screen, dbStatus, dbFish, creator, roomFeed, loads, delivers,
                 timers, startPhase, endPhase, mpState, mpRefs, raf, r, histVars>>
  /\ UNCHANGED <<spVars, thVars, phVars, farVars, lobVars>>

\* ------------------------------------------------------------- game loop
\* the fish the forEach of the loop hands to collectFish in this frame
Picked(cl, k) ==
  {i \in 0..(Len(fishes) - 1) :
     /\ wantsFish(fishes[i + 1], cl, LevelFishBox(currentLevel), k)
     /\ collectFishGuard(cl)}

Carry(fs, P) ==
  [j \in 1..Len(fs) |->
     IF (j - 1) \in P THEN [fs[j] EXCEPT !.carriedBy = Me] ELSE fs[j]]

\* one run of the scheduled gameLoop callback.  k is the position the physics
\* step leaves the player at; the loop calls updatePlayerPosition, then
\* collectFish for the fish it touches and deliverFish at the scratching post.
Frame(k) ==
  /\ screen = "multi"
  /\ raf # <<>>
  /\ LET cl == Head(raf).cl
         rest == Tail(raf)
     IN IF ~cl.gameStarted
          THEN /\ raf' = rest
               /\ UNCHANGED <<fishes, levelConfigs, carriedFish, delivers, kitty,
                              carryBase, carryTimers, lastPositionUpdate, reports,
                              sentAt, lastCall>>
          ELSE LET P == Picked(cl, k)
                   deliver == wantsDelivery(cl, k) /\ deliverFishGuard(cl)
                   pass == ~throttled(now, lastPositionUpdate)
               IN /\ kitty' = k
                  /\ pass => reports < MaxReports
                  /\ lastPositionUpdate' = IF pass THEN now ELSE lastPositionUpdate
                  /\ reports' = IF pass THEN reports + 1 ELSE reports
                  /\ sentAt' = IF pass THEN now ELSE sentAt
                  /\ lastCall' = IF pass THEN "sent" ELSE "dropped"
                  /\ fishes' = Carry(fishes, P)
                  /\ levelConfigs' =
                       IF shared
                         THEN [levelConfigs EXCEPT ![currentLevel] = Carry(@, P)]
                         ELSE levelConfigs
                  /\ carriedFish' = IF P # {} THEN Max(P) ELSE carriedFish
                  /\ carryBase' = IF P # {} THEN dbFish[Me] ELSE carryBase
                  /\ carryTimers' = IF P # {} THEN 0 ELSE carryTimers
                  /\ IF deliver
                       THEN /\ Len(delivers) < MaxDelivers
                            /\ cl.currentPlayer < MaxFish
                            /\ delivers' = Append(delivers,
                                 [ph |-> "sent", cnt |-> cl.currentPlayer + 1,
                                  idx |-> cl.carriedFish, round |-> cl.dfRound])
                       ELSE UNCHANGED delivers
                  /\ raf' = Request(rest, cl)
  /\ UNCHANGED <<screen, dbVars, roomFeed, playerFeed, loads, timers, startPhase,
                 endPhase, room, players, currentPlayer, gameStarted, timeLeft,
                 currentRound, currentLevel, playersDirty, cpDirty, shared, r,
                 sessionOver, now>>
  /\ UNCHANGED <<spVars, phVars, farVars, lobVars>>

\* --------------------------------------------------- position reports
\* Date.now() moves on between two callbacks
Tick(dt) ==
  /\ now + dt <= ClockStart + MaxClock
  /\ now' = now + dt
  /\ UNCHANGED <<screen, dbVars, netVars, mpState, mpRefs, raf, r, histVars, spVars, phVars, farVars, lobVars,
                 lastPositionUpdate, reports, sentAt, lastCall>>

\* the awaited room_players.update({position_x, position_y}) of
\* updatePlayerPosition is stored; the change is notified on the room channel
ReportDone ==
  /\ reports > 0
  /\ reports' = reports - 1
  /\ playerFeed' = (playerFeed \/ screen = "multi")
  /\ UNCHANGED <<screen, dbVars, roomFeed, loads, delivers, timers, startPhase,
                 endPhase, mpState, mpRefs, raf, r, histVars, spVars, phVars, farVars, lobVars, now,
                 lastPositionUpdate, sentAt, lastCall>>

\* the update fails; updatePlayerPosition's catch logs the error
ReportFail ==
  /\ reports > 0
  /\ reports' = reports - 1
  /\ UNCHANGED <<screen, dbVars, netVars, mpState, mpRefs, raf, r, histVars, spVars, phVars, farVars, lobVars,
                 now, lastPositionUpdate, sentAt, lastCall>>

\* ------------------------------------------------------------ deliverFish
\* the update of fish_collected reaches the store
DeliverWrite(i) ==
  /\ i \in 1..Len(delivers)
  /\ delivers[i].ph = "sent"
  /\ dbFish' = [dbFish EXCEPT ![Me] = delivers[i].cnt]
  /\ delivers' = [delivers EXCEPT ![i].ph = "written"]
  /\ playerFeed' = (playerFeed \/ screen = "multi")
  /\ UNCHANGED <<screen, dbStatus, dbOnline, creator, roomFeed, loads, timers,
                 startPhase, endPhase, mpState, mpRefs, raf, r, histVars>>
  /\ UNCHANGED <<spVars, thVars, phVars, farVars, lobVars>>

\* the rest of deliverFish after the awaited update: the fish is marked
\* collected, the carry state is cleared and the delayed advance is scheduled
DeliverDone(i) ==
  /\ screen = "multi"
  /\ i \in 1..Len(delivers)
  /\ delivers[i].ph = "written"
  /\ LET d == delivers[i]
     IN /\ d.idx < Len(fishes)
        /\ Len(timers) < MaxTimers
        /\ d.round < MaxRound
        /\ fishes' = WriteFish(fishes, d.idx, [fishes[d.idx + 1] EXCEPT !.collected = TRUE])
        /\ levelConfigs' = CatalogAfter(d.idx, [fishes[d.idx + 1] EXCEPT !.collected = TRUE])
        /\ carriedFish' = NoFish
        /\ timers' = Append(timers, d.round + 1)
  /\ delivers' = RemoveAt(delivers, i)
  /\ carryTimers' = Min(carryTimers + 1, MaxTimers + 1)
  /\ UNCHANGED <<screen, dbVars, roomFeed, playerFeed, loads, startPhase, endPhase,
                 room, players, currentPlayer, gameStarted, timeLeft, currentRound,
                 currentLevel, playersDirty, cpDirty, shared, kitty, raf, r,
                 sessionOver, carryBase>>
  /\ UNCHANGED <<spVars, thVars, phVars, farVars, lobVars>>

\* the response of a deliverFish whose component has unmounted
DeliverDrop(i) ==
  /\ screen # "multi"
  /\ i \in 1..Len(delivers)
  /\ delivers[i].ph = "written"
  /\ delivers' = RemoveAt(delivers, i)
  /\ UNCHANGED <<screen, dbVars, roomFeed, playerFeed, loads, timers, startPhase,
                 endPhase, mpState, mpRefs, raf, r, histVars>>
  /\ UNCHANGED <<spVars, thVars, phVars, farVars, lobVars>>

\* the setTimeout callback of deliverFish: initializeLevel(), setCurrentRound,
\* setTimeLeft(60); lvl is Math.floor(Math.random() * levelConfigs.length)
AdvanceTimer(lvl) ==
  /\ screen = "multi"
  /\ timers # <<>>
  /\ timers' = Tail(timers)
  /\ currentLevel' = lvl
  /\ fishes' = levelConfigs[lvl]
  /\ shared' = TRUE
  /\ carriedFish' = NoFish
  /\ currentRound' = Head(timers)
  /\ timeLeft' = ROUND_TIME
  /\ UNCHANGED <<screen, dbVars, roomFeed, playerFeed, loads, delivers, startPhase,
                 endPhase, room, players, currentPlayer, gameStarted, playersDirty,
                 cpDirty, levelConfigs, kitty, raf, r, histVars>>
  /\ UNCHANGED <<spVars, thVars, phVars, farVars, lobVars>>

\* rooms.update({status}) by the other client: row level security lets it change
\* the row only when that user created the room; A's channel is notified
OtherRoomUpdate(s) ==
  /\ creator = Other
  /\ dbStatus' = s
  /\ IF screen = "multi"
       THEN /\ Len(roomFeed) < MaxFeed
            /\ roomFeed' = Append(roomFeed, s)
       ELSE UNCHANGED roomFeed

\* the other client's user presses the start button, which that client shows
\* while its room is waiting: startGame's rooms.update({status: 'playing'})
OtherStartGame ==
  /\ dbOnline[Other]
  /\ dbStatus = "waiting"
  /\ OtherRoomUpdate("playing")
  /\ UNCHANGED <<screen, dbFish, dbOnline, creator, playerFeed, loads, delivers,
                 timers, startPhase, endPhase, mpState, mpRefs, raf, r, histVars>>
  /\ UNCHANGED <<spVars, thVars, phVars, farVars, lobVars>>

\* the other client's countdown reaches 0: endGame's rooms.update({status: 'waiting'})
OtherEndGame ==
  /\ dbOnline[Other]
  /\ dbStatus = "playing"
  /\ OtherRoomUpdate("waiting")
  /\ UNCHANGED <<screen, dbFish, dbOnline, creator, playerFeed, loads, delivers,
                 timers, startPhase, endPhase, mpState, mpRefs, raf, r, histVars>>
  /\ UNCHANGED <<spVars, thVars, phVars, farVars, lobVars>>

\* ---------------------------------------------------- startGame / endGame
\* startGame up to its awaited rooms.update({status: 'playing'}); the button is
\* rendered while the rendered room is waiting
StartGame ==
  /\ screen = "multi"
  /\ r.room = "waiting"
  /\ startPhase = "idle"
  /\ RoomUpdate("playing")
  /\ startPhase' = "written"
  /\ UNCHANGED <<screen, dbFish, dbOnline, creator, playerFeed, loads, delivers,
                 timers, endPhase, mpState, mpRefs, raf, r, histVars>>
  /\ UNCHANGED <<spVars, thVars, phVars, farVars, lobVars>>

\* the rest of startGame: setGameStarted(true), setTimeLeft(60), initializeLevel()
StartGameDone(lvl) ==
  /\ screen = "multi"
  /\ startPhase = "written"
  /\ startPhase' = "idle"
  /\ gameStarted' = TRUE
  /\ timeLeft' = ROUND_TIME
  /\ currentLevel' = lvl
  /\ fishes' = levelConfigs[lvl]
  /\ shared' = TRUE
  /\ carriedFish' = NoFish
  /\ sessionOver' = FALSE
  /\ UNCHANGED <<screen, dbVars, roomFeed, playerFeed, loads, delivers, timers,
                 endPhase, room, players, currentPlayer, currentRound, playersDirty,
                 cpDirty, levelConfigs, kitty, raf, r, carryBase, carryTimers>>
  /\ UNCHANGED <<spVars, thVars, phVars, farVars, lobVars>>

\* the setInterval callback of the timer effect, which runs while the rendered
\* game is started and the rendered room is playing
TimerTick ==
  /\ screen = "multi"
  /\ r.gameStarted /\ r.room = "playing"
  /\ IF timeLeft <= 1
       THEN /\ endPhase = "idle"
            /\ endPhase' = "called"
            /\ timeLeft' = 0
       ELSE /\ timeLeft' = timeLeft - 1
            /\ UNCHANGED endPhase
  /\ UNCHANGED <<screen, dbVars, roomFeed, playerFeed, loads, delivers, timers,
                 startPhase, room, players, currentPlayer, gameStarted, currentRound,
                 carriedFish, currentLevel, playersDirty, cpDirty, mpRefs, raf, r,
                 histVars>>
  /\ UNCHANGED <<spVars, thVars, phVars, farVars, lobVars>>

\* endGame() up to its awaited rooms.update({status: 'waiting'})
EndGameWrite ==
  /\ screen = "multi"
  /\ endPhase = "called"
  /\ RoomUpdate("waiting")
  /\ endPhase' = "written"
  /\ UNCHANGED <<screen, dbFish, dbOnline, creator, playerFeed, loads, delivers,
                 timers, startPhase, mpState, mpRefs, raf, r, histVars>>
  /\ UNCHANGED <<spVars, thVars, phVars, farVars, lobVars>>

\* the rest of endGame: setGameStarted(false), setCurrentRound(1)
EndGameDone ==
  /\ screen = "multi"
  /\ endPhase = "written"
  /\ endPhase' = "idle"
  /\ gameStarted' = FALSE
  /\ currentRound' = 1
  /\ sessionOver' = TRUE
  /\ UNCHANGED <<screen, dbVars, roomFeed, playerFeed, loads, delivers, timers,
                 startPhase, room, players, currentPlayer, timeLeft, carriedFish,
                 currentLevel, playersDirty, cpDirty, mpRefs, raf, r, carryBase,
                 carryTimers>>
  /\ UNCHANGED <<spVars, thVars, phVars, farVars, lobVars>>

\* ------------------------------------------------------------------ render
\* gameLoop's dependency list: gameStarted, players, collectFish and deliverFish
\* (currentPlayer, carriedFish), carriedFish
loopChanged ==
  gameStarted # r.gameStarted \/ playersDirty \/ cpDirty \/ carriedFish # r.carriedFish

\* deliverFish's dependency list: currentPlayer, carriedFish (not currentRound)
deliverFishChanged == cpDirty \/ carriedFish # r.carriedFish

\* the effect on [players, checkWinCondition], checkWinCondition on [players, currentRound]
winEffectRuns == playersDirty \/ currentRound # r.currentRound

NeedsRender ==
  \/ gameStarted # r.gameStarted \/ carriedFish # r.carriedFish
  \/ room # r.room \/ currentRound # r.currentRound
  \/ playersDirty \/ cpDirty

\* the "setup and cleanup" effect on [gameStarted, gameLoop, ...]: the cleanup of
\* the previous run cancels animationRef.current, the new run requests a frame
LoopEffect(q, old, new) ==
  LET cleaned == IF old.gameStarted THEN Cancel(q) ELSE q
  IN IF new.gameStarted THEN Request(cleaned, new) ELSE cleaned

\* a re-render of MultiplayerGame with its effects: the callbacks are re-created
\* from the latest state, the loop effect re-subscribes, and the win effect runs
\* checkWinCondition, which calls startNextRound (lvl is its random level)
Render ==
  /\ screen = "multi"
  /\ NeedsRender
  /\ LET new == Rendered(gameStarted, carriedFish, currentPlayer, room, currentRound,
                         IF deliverFishChanged THEN currentRound ELSE r.dfRound)
         win == /\ winEffectRuns
                /\ allPlayersCollected(players, currentRound)
                /\ playersLength(players) > 0
     IN /\ r' = new
        /\ raf' = IF loopChanged THEN LoopEffect(raf, r, new) ELSE raf
        /\ playersDirty' = FALSE
        /\ cpDirty' = FALSE
        /\ IF win
             THEN \E lvl \in Levels :
                    /\ currentRound < MaxRound
                    /\ currentRound' = currentRound + 1
                    /\ timeLeft' = ROUND_TIME
                    /\ currentLevel' = lvl
                    /\ carriedFish' = NoFish
                    /\ fishes' = [j \in 1..Len(levelConfigs[lvl]) |->
                                    [levelConfigs[lvl][j] EXCEPT !.collected = FALSE]]
                    /\ shared' = FALSE
             ELSE UNCHANGED <<currentRound, timeLeft, currentLevel, carriedFish,
                              fishes, shared>>
  /\ UNCHANGED <<screen, dbVars, netVars, room, players, currentPlayer, gameStarted,
                 levelConfigs, kitty, histVars>>
  /\ UNCHANGED <<spVars, thVars, phVars, farVars, lobVars>>

\* ----------------------------------------------------------- single player
mpVars == <<dbVars, netVars, mpState, mpRefs, raf, r, histVars, thVars, phVars, farVars, lobVars>>

\* the single-player screen mounts
OpenSingle ==
  /\ screen = "menu"
  /\ screen' = "single"
  /\ ResetSingle
  /\ UNCHANGED mpVars

\* onBackToProfile: Game unmounts; the cleanups run (clearInterval,
\* cancelAnimationFrame)
CloseSingle ==
  /\ screen = "single"
  /\ screen' = "menu"
  /\ ResetSingle
  /\ UNCHANGED mpVars

\* startGame of Game; its button is on the start screen, which is rendered
\* while gameStarted is false
GameStart ==
  /\ screen = "single"
  /\ ~sr.gameStarted
  /\ sGameStarted' = TRUE
  /\ score' = 0 /\ fishCount' = 0 /\ sCarriedFish' = 0
  /\ sCurrentLevel' = 0
  /\ sTimeLeft' = START_TIME
  /\ gameStatus' = "playing"
  /\ hasReachedScratcher' = FALSE
  /\ sFishes' = FreshLevel(0)
  /\ sKitty' = PlayerStart(0)
  /\ sDone' = {}
  /\ sDirty' = TRUE
  /\ UNCHANGED <<screen, mpVars, sRaf, sr>>

\* resetGame; its button is rendered while gameStatus is not 'playing'
GameReset ==
  /\ screen = "single"
  /\ sr.gameStarted /\ sr.gameStatus # "playing"
  /\ sGameStarted' = FALSE
  /\ gameStatus' = "playing"
  /\ score' = 0 /\ fishCount' = 0
  /\ sTimeLeft' = RESET_TIME
  /\ sRaf' = Cancel(sRaf)
  /\ sDirty' = TRUE
  /\ UNCHANGED <<screen, mpVars, sCarriedFish, sCurrentLevel, hasReachedScratcher,
                 sFishes, sKitty, sDone, sr>>

\* (variant of Caught: the collected flag of a fish is not tested)
CaughtAgain(k) ==
  {i \in 1..Len(sFishes) :
     /\ i <= Len(LevelFishes(sCurrentLevel))
     /\ checkCollision(KittyBox(k), LevelFishes(sCurrentLevel)[i])}

\* the fish the loop collects in a frame that leaves the player at k
Caught(k) ==
  {i \in 1..Len(sFishes) :
     /\ ~sFishes[i]
     /\ i <= Len(LevelFishes(sCurrentLevel))
     /\ checkCollision(KittyBox(k), LevelFishes(sCurrentLevel)[i])}

\* the bonus the scratcher branch of the loop adds
ScratcherBonus(cl, touch) ==
  IF touch /\ ~cl.hasReachedScratcher /\ cl.carriedFish > 0
    THEN cl.carriedFish * DELIVERY_BONUS
    ELSE 0

\* one run of the scheduled gameLoop callback of Game
GameFrame(k) ==
  /\ screen = "single"
  /\ sRaf # <<>>
  /\ LET cl == Head(sRaf).cl
         rest == Tail(sRaf)
     IN IF ~sr.gameStarted \/ cl.gameStatus # "playing"
          THEN /\ sRaf' = rest
               /\ UNCHANGED <<score, fishCount, sCarriedFish, hasReachedScratcher,
                              sDirty, sFishes, sKitty>>
          ELSE LET hit == Caught(k)
                   n == Cardinality(hit)
                   touch == checkCollision(KittyBox(k), LevelScratcher(sCurrentLevel))
                   bonus == ScratcherBonus(cl, touch)
               IN /\ k \in SKittySpots(sCurrentLevel)
                  /\ score + FISH_SCORE * n + bonus <= MaxScore
                  /\ sKitty' = k
                  /\ sFishes' = [i \in 1..Len(sFishes) |-> sFishes[i] \/ i \in hit]
                  /\ score' = score + FISH_SCORE * n + bonus
                  /\ fishCount' = fishCount + n
                  /\ sCarriedFish' = sCarriedFish + n
                  /\ hasReachedScratcher' =
                       IF touch
                         THEN (IF cl.hasReachedScratcher THEN hasReachedScratcher ELSE TRUE)
                         ELSE FALSE
                  /\ sDirty' = (sDirty \/ n > 0 \/ bonus > 0)
                  /\ sRaf' = Request(rest, cl)
  /\ UNCHANGED <<screen, mpVars, sTimeLeft, sCurrentLevel, gameStatus, sGameStarted,
                 sDone, sr>>

\* the setInterval callback of Game's timer effect
GameTick ==
  /\ screen = "single"
  /\ sr.gameStarted /\ sr.gameStatus = "playing"
  /\ IF sTimeLeft <= 1
       THEN /\ gameStatus' = "lost"
            /\ sTimeLeft' = 0
       ELSE /\ sTimeLeft' = sTimeLeft - 1
            /\ UNCHANGED gameStatus
  /\ sDirty' = (sDirty \/ sTimeLeft # 0)
  /\ UNCHANGED <<screen, mpVars, score, fishCount, sCarriedFish, sCurrentLevel,
                 sGameStarted, hasReachedScratcher, sFishes, sKitty, sDone, sRaf, sr>>

SNeedsRender ==
  \/ sGameStarted # sr.gameStarted \/ gameStatus # sr.gameStatus
  \/ hasReachedScratcher # sr.hasReachedScratcher
  \/ sCurrentLevel # sr.currentLevel
  \/ sDirty

\* the effect on [fishCount, hasReachedScratcher, checkWinCondition] runs
sWinEffectRuns ==
  \/ sDirty
  \/ hasReachedScratcher # sr.hasReachedScratcher
  \/ sCurrentLevel # sr.currentLevel

\* checkWinCondition's test
levelCompleted ==
  /\ \A i \in 1..Len(LevelFishes(sCurrentLevel)) : i <= Len(sFishes) /\ sFishes[i]
  /\ hasReachedScratcher

\* the "setup and cleanup" effect of Game on [gameStarted, gameLoop, ...]
SLoopEffect(q, old, new) ==
  LET cleaned == IF old.gameStarted THEN Cancel(q) ELSE q
  IN IF new.gameStarted THEN Request(cleaned, new.loop) ELSE cleaned

\* a re-render of Game with its effects; the win effect calls nextLevel
GameRender ==
  /\ screen = "single"
  /\ SNeedsRender
  /\ LET loop == IF gameStatus # sr.gameStatus
                   THEN Loop(gameStatus, sCarriedFish, hasReachedScratcher)
                   ELSE sr.loop
         new == SRendered(sGameStarted, gameStatus, hasReachedScratcher,
                          sCurrentLevel, loop)
         changed == sGameStarted # sr.gameStarted \/ gameStatus # sr.gameStatus
     IN /\ sr' = new
        /\ sRaf' = IF changed THEN SLoopEffect(sRaf, sr, new) ELSE sRaf
        /\ IF sWinEffectRuns /\ levelCompleted
             THEN IF sCurrentLevel < LastLevel
                    THEN /\ sCurrentLevel' = sCurrentLevel + 1
                         /\ sTimeLeft' = sTimeLeft + LEVEL_BONUS_TIME
                         /\ sCarriedFish' = 0
                         /\ hasReachedScratcher' = FALSE
                         /\ sFishes' = FreshLevel(sCurrentLevel + 1)
                         /\ sKitty' = PlayerStart(sCurrentLevel + 1)
                         /\ sDone' = sDone \cup {sCurrentLevel}
                         /\ sDirty' = TRUE
                         /\ UNCHANGED gameStatus
                    ELSE /\ gameStatus' = "won"
                         /\ sDone' = sDone \cup {sCurrentLevel}
                         /\ sDirty' = FALSE
                         /\ UNCHANGED <<sCurrentLevel, sTimeLeft, sCarriedFish,
                                        hasReachedScratcher, sFishes, sKitty>>
             ELSE /\ sDirty' = FALSE
                  /\ UNCHANGED <<sCurrentLevel, sTimeLeft, sCarriedFish,
                                 hasReachedScratcher, sFishes, sKitty, sDone,
                                 gameStatus>>
  /\ UNCHANGED <<screen, mpVars, score, fishCount, sGameStarted>>

\* ------------------------------------------------------------------ physics
\* The physics part of the two loops on its own state.  GRAVITY is 0.5 and 0.8,
\* so every length and speed is counted in tenths of a pixel.
Scale == 10

Abs(n) == IF n < 0 THEN -n ELSE n

GRAVITY(mode) == IF mode = "single" THEN 5 ELSE 8
JUMP_FORCE(mode) == IF mode = "single" THEN -12 * Scale ELSE -15 * Scale
MOVE_SPEED(mode) == IF mode = "single" THEN 5 * Scale ELSE 6 * Scale
CANVAS_WIDTH == 800 * Scale
CANVAS_HEIGHT(mode) == IF mode = "single" THEN 600 * Scale ELSE 1200 * Scale
PW == KITTY_W * Scale
PH == KITTY_H * Scale

\* (variant of SPlatforms: the levels without their ground platform)
SPlatformsNoGround(l) ==
  IF l = 0 THEN <<Box(200, 450, 150, 20), Box(500, 400, 100, 20), Box(150, 300, 120, 20)>>
  ELSE <<Box(100, 450, 80, 20)>>

\* levels.current[l].platforms of Game
SPlatforms(l) ==
  IF l = 0 THEN <<Box(0, 580, 800, 20), Box(200, 450, 150, 20), Box(500, 400, 100, 20),
                  Box(150, 300, 120, 20)>>
  ELSE IF l = 1 THEN <<Box(0, 580, 800, 20), Box(100, 450, 80, 20), Box(300, 350, 80, 20),
                       Box(150, 250, 80, 20), Box(400, 150, 80, 20), Box(600, 200, 120, 20)>>
  ELSE <<Box(0, 580, 800, 20), Box(100, 500, 100, 20), Box(300, 450, 100, 20),
         Box(500, 400, 100, 20), Box(650, 350, 100, 20), Box(100, 350, 80, 20),
         Box(300, 250, 80, 20), Box(500, 200, 80, 20), Box(200, 150, 100, 20),
         Box(450, 100, 80, 20)>>

\* levelConfigs[l].platforms of MultiplayerGame
MPlatforms(l) ==
  IF l = 0 THEN <<Box(0, 1180, 800, 20), Box(100, 1000, 200, 20), Box(500, 850, 200, 20),
                  Box(150, 700, 200, 20), Box(450, 550, 200, 20), Box(200, 400, 200, 20),
                  Box(300, 250, 200, 20)>>
  ELSE IF l = 1 THEN <<Box(0, 1180, 800, 20), Box(600, 1050, 150, 20), Box(50, 920, 150, 20),
                       Box(600, 790, 150, 20), Box(50, 660, 150, 20), Box(550, 530, 150, 20),
                       Box(100, 400, 150, 20), Box(500, 270, 150, 20), Box(300, 140, 200, 20)>>
  ELSE IF l = 2 THEN <<Box(0, 1180, 800, 20), Box(350, 1050, 100, 20), Box(250, 920, 300, 20),
                       Box(350, 790, 100, 20), Box(200, 660, 400, 20), Box(350, 530, 100, 20),
                       Box(250, 400, 300, 20), Box(350, 270, 100, 20), Box(300, 140, 200, 20)>>
  ELSE IF l = 3 THEN <<Box(0, 1180, 800, 20), Box(50, 1050, 120, 20), Box(630, 940, 120, 20),
                       Box(50, 830, 120, 20), Box(630, 720, 120, 20), Box(100, 610, 120, 20),
                       Box(580, 500, 120, 20), Box(150, 390, 120, 20), Box(530, 280, 120, 20),
                       Box(340, 170, 120, 20)>>
  ELSE <<Box(0, 1180, 800, 20), Box(0, 1050, 160, 20), Box(160, 920, 160, 20),
         Box(320, 790, 160, 20), Box(480, 660, 160, 20), Box(320, 530, 160, 20),
         Box(160, 400, 160, 20), Box(320, 270, 160, 20), Box(320, 140, 160, 20)>>

Scaled(b) == [x |-> b.x * Scale, y |-> b.y * Scale,
              width |-> b.width * Scale, height |-> b.height * Scale]

\* platforms.current
Platforms(mode, l) ==
  LET ps == IF mode = "single" THEN SPlatforms(l) ELSE MPlatforms(l)
  IN [i \in 1..Len(ps) |-> Scaled(ps[i])]

PBox(k) == [x |-> k.x, y |-> k.y, width |-> PW, height |-> PH]

Dirs == {"left", "right", "none"}

\* input handling: vx from the direction keys; kitty.current.vx *= 0.8 otherwise
\* (rounded down to the tenth of a pixel)
Steer(mode, k, dir) ==
  [k EXCEPT !.vx = IF dir = "left" THEN -MOVE_SPEED(mode)
                   ELSE IF dir = "right" THEN MOVE_SPEED(mode)
                   ELSE (k.vx * 4) \div 5]

\* onPlatform of Game with the tolerance of MultiplayerGame
SGroundedWide(k, plats) ==
  \E i \in 1..Len(plats) :
    /\ k.x < plats[i].x + plats[i].width
    /\ k.x + PW > plats[i].x
    /\ Abs(k.y + PH - plats[i].y) <= 10 * Scale

\* Game: onPlatform
SGrounded(k, plats) ==
  \E i \in 1..Len(plats) :
    /\ k.x < plats[i].x + plats[i].width
    /\ k.x + PW > plats[i].x
    /\ Abs(k.y + PH - plats[i].y) < 5 * Scale

\* MultiplayerGame: onPlatform
MGrounded(k, plats) ==
  \/ k.y + PH >= CANVAS_HEIGHT("multi") - 5 * Scale
  \/ \E i \in 1..Len(plats) :
       /\ k.x + PW > plats[i].x + 5 * Scale
       /\ k.x < plats[i].x + plats[i].width - 5 * Scale
       /\ Abs(k.y + PH - plats[i].y) <= 10 * Scale
       /\ k.vy >= -Scale

\* a jump step that looks at the key only
JumpsOnKey(mode, k, plats, jump) == jump

\* the condition under which the jump step sets vy = JUMP_FORCE
Jumps(mode, k, plats, jump) ==
  IF mode = "single"
    THEN jump /\ Abs(k.vy) < 1 /\ SGrounded(k, plats)
    ELSE jump /\ MGrounded(k, plats) /\ Abs(k.vy) < 2 * Scale

JumpStep(mode, k, plats, jump) ==
  IF Jumps(mode, k, plats, jump) THEN [k EXCEPT !.vy = JUMP_FORCE(mode)] ELSE k

\* gravity with the fall speed capped at the speed of a jump
FallCapped(mode, k) ==
  [k EXCEPT !.vy = Min(@ + GRAVITY(mode), -JUMP_FORCE(mode))]

\* kitty.current.vy += GRAVITY
Fall(mode, k) == [k EXCEPT !.vy = @ + GRAVITY(mode)]

\* kitty.current.x += vx; kitty.current.y += vy
Move(k) == [k EXCEPT !.x = @ + k.vx, !.y = @ + k.vy]

\* a landing test that looks at the overlap only
LandsOnContact(k, p) == checkCollision(PBox(k), p)

\* the test of the platform loop for one platform
Lands(k, p) == checkCollision(PBox(k), p) /\ k.vy > 0 /\ k.y < p.y

\* a landing that moves the player onto the platform and keeps its speed
ResolveOneKeepSpeed(k, p) ==
  IF Lands(k, p) THEN [k EXCEPT !.y = p.y - PH] ELSE k

\* the body of platforms.current.forEach for platform p
ResolveOne(k, p) ==
  IF Lands(k, p) THEN [k EXCEPT !.y = p.y - PH, !.vy = 0] ELSE k

\* platforms.current.forEach from platform i on; fired collects the platforms
\* whose branch ran
RECURSIVE ResolveFrom(_, _, _, _)
ResolveFrom(k, plats, i, fired) ==
  IF i > Len(plats) THEN [k |-> k, fired |-> fired]
  ELSE ResolveFrom(ResolveOne(k, plats[i]), plats, i + 1,
                   IF Lands(k, plats[i]) THEN fired \cup {i} ELSE fired)

\* the respawn coordinate of the boundary check
Respawn(mode) ==
  IF mode = "single" THEN [x |-> 100 * Scale, y |-> 300 * Scale, vx |-> 0, vy |-> 0]
  ELSE [x |-> 400 * Scale, y |-> 1120 * Scale, vx |-> 0, vy |-> 0]

Falls(mode, k) == k.y > CANVAS_HEIGHT(mode)

\* a boundary check without the two walls
ClampFallOnly(mode, k) == IF Falls(mode, k) THEN Respawn(mode) ELSE k

\* the boundary check
Clamp(mode, k) ==
  LET left == IF k.x < 0 THEN [k EXCEPT !.x = 0] ELSE k
      both == IF left.x + PW > CANVAS_WIDTH THEN [left EXCEPT !.x = CANVAS_WIDTH - PW]
              ELSE left
  IN IF Falls(mode, both) THEN Respawn(mode) ELSE both

\* startGame of Game puts the player on the first level's start; MultiplayerGame
\* mounts with the player at its initial coordinate and startGame draws a level
PhysStart(mode, lvl) ==
  /\ pm = "off"
  /\ pm' = mode
  /\ pl' = IF mode = "single" THEN 0 ELSE lvl
  /\ pk' = IF mode = "single"
             THEN [x |-> PlayerStart(0).x * Scale, y |-> PlayerStart(0).y * Scale,
                   vx |-> 0, vy |-> 0]
             ELSE [x |-> KittyStart.x * Scale, y |-> KittyStart.y * Scale,
                   vx |-> 0, vy |-> 0]
  /\ pt' = NoTick
  /\ air' = "none"
  /\ UNCHANGED <<screen, dbVars, netVars, mpState, mpRefs, raf, r, histVars, spVars,
                 thVars, farVars, lobVars>>

\* nextLevel of Game: the next level's platforms and start; initializeLevel of
\* MultiplayerGame: the platforms of the drawn level, the player stays
PhysLevel(lvl) ==
  /\ pm # "off"
  /\ IF pm = "single"
       THEN /\ pl < LastLevel
            /\ lvl = pl + 1
            /\ pk' = [x |-> PlayerStart(lvl).x * Scale, y |-> PlayerStart(lvl).y * Scale,
                      vx |-> 0, vy |-> 0]
       ELSE /\ lvl # pl
            /\ pk' = pk
  /\ pl' = lvl
  /\ pt' = NoTick
  /\ air' = "none"
  /\ UNCHANGED <<screen, dbVars, netVars, mpState, mpRefs, raf, r, histVars, spVars,
                 thVars, farVars, lobVars, pm>>

\* resetGame of Game, the unmount of MultiplayerGame: the loop is over until the
\* next start
PhysStop ==
  /\ pm # "off"
  /\ pm' = "off"
  /\ pl' = 0
  /\ pk' = [x |-> 0, y |-> 0, vx |-> 0, vy |-> 0]
  /\ pt' = NoTick
  /\ air' = "none"
  /\ UNCHANGED <<screen, dbVars, netVars, mpState, mpRefs, raf, r, histVars, spVars,
                 thVars, farVars, lobVars>>

\* kitty.current after one tick of the loop of mode in level l with the keys dir
\* and jump held
Ticked(mode, l, k, dir, jump) ==
  LET plats == Platforms(mode, l)
      moved == Move(Fall(mode, JumpStep(mode, Steer(mode, k, dir), plats, jump)))
  IN Clamp(mode, ResolveFrom(moved, plats, 1, {}).k)

\* the physics of one tick of the loop with the keys dir and jump held
PhysTick(dir, jump) ==
  /\ pm # "off"
  /\ LET plats == Platforms(pm, pl)
         steered == Steer(pm, pk, dir)
         imp == Jumps(pm, steered, plats, jump)
         moved == Move(Fall(pm, JumpStep(pm, steered, plats, jump)))
         res == ResolveFrom(moved, plats, 1, {})
         fell == Falls(pm, res.k)
     IN /\ pk' = Ticked(pm, pl, pk, dir, jump)
        /\ pt' = [dir |-> dir, jump |-> jump, imp |-> imp, fired |-> res.fired,
                  fell |-> fell]
        /\ air' = IF imp THEN "held"
                  ELSE IF res.fired # {} \/ fell THEN "none"
                  ELSE IF air = "held" /\ ~jump THEN "released"
                  ELSE air
  /\ UNCHANGED <<screen, dbVars, netVars, mpState, mpRefs, raf, r, histVars, spVars,
                 thVars, farVars, lobVars, pm, pl>>

\* ------------------------------------------------------- the other player
\* One tick of the physics of MultiplayerGame on the other client, in FineScale
\* units, for a player that walks on the floor platform and does not jump.
\* vx *= 0.8 is cut to the millionth.
FineFloor == Box(0, 1180 * FineScale, 800 * FineScale, 20 * FineScale)

FineBox(k) ==
  [x |-> k.x, y |-> k.y, width |-> KITTY_W * FineScale, height |-> KITTY_H * FineScale]

FineTick(k, dir) ==
  LET vx == IF dir = "left" THEN -6 * FineScale
            ELSE IF dir = "right" THEN 6 * FineScale
            ELSE (k.vx * 4) \div 5
      vy == k.vy + (8 * FineScale) \div 10
      moved == [x |-> k.x + vx, y |-> k.y + vy, vx |-> vx, vy |-> vy]
      landed == IF checkCollision(FineBox(moved), FineFloor) /\ moved.vy > 0
                   /\ moved.y < FineFloor.y
                THEN [moved EXCEPT !.y = FineFloor.y - KITTY_H * FineScale, !.vy = 0]
                ELSE moved
      left == IF landed.x < 0 THEN [landed EXCEPT !.x = 0] ELSE landed
      both == IF left.x + KITTY_W * FineScale > 800 * FineScale
              THEN [left EXCEPT !.x = (800 - KITTY_W) * FineScale] ELSE left
  IN IF both.y > 1200 * FineScale
     THEN [x |-> 400 * FineScale, y |-> 1120 * FineScale, vx |-> 0, vy |-> 0]
     ELSE both

\* a tick of the other client's loop
OtherTick(dir) ==
  /\ dbOnline[Other]
  /\ oTicks < MaxOtherTicks
  /\ oTicks' = oTicks + 1
  /\ ok' = FineTick(ok, dir)
  /\ UNCHANGED <<screen, dbVars, netVars, mpState, mpRefs, raf, r, histVars, spVars,
                 thVars, phVars, oSent, dbPos, seen, lobVars>>

\* the other client's updatePlayerPosition passes its throttle and its update of
\* position_x, position_y is applied to the row
OtherReport ==
  /\ dbOnline[Other]
  /\ Cardinality(oSent) < MaxOtherReports
  /\ oSent' = oSent \cup {[x |-> ok.x, y |-> ok.y]}
  /\ dbPos' = [x |-> Real4(ok.x), y |-> Real4(ok.y)]
  /\ playerFeed' = (screen = "multi")
  /\ UNCHANGED <<screen, dbVars, roomFeed, loads, delivers, timers, startPhase,
                 endPhase, mpState, mpRefs, raf, r, histVars, spVars, thVars, phVars,
                 ok, oTicks, seen, lobVars>>

\* ------------------------------------------------------------------- lobby
\* The rooms table, the room_players rows of each room and the lobby component
\* of each client.  A room is known by its index in lRooms (its id).

\* what the actions of the lobby leave alone
LobbyOnly == UNCHANGED <<screen, dbVars, netVars, mpState, mpRefs, raf, r, histVars, spVars,
                         thVars, phVars, farVars>>

ToUpperCase(c) == [c EXCEPT !.upper = TRUE]
ExistingCodes == {lRooms[i].code : i \in DOMAIN lRooms}

\* max_players of the rooms the lobby inserts
MAX_PLAYERS == 5

\* count of select('*', {count: 'exact'}).eq('room_id', room.id): every row of
\* the room, online or not
RowCount(i) == lRooms[i].res + Cardinality(lRooms[i].rows)

\* length of the select with .eq('is_online', true)
OnlineCount(i) == lRooms[i].resOn + Cardinality(lRooms[i].on)

\* (variant of UniqueCode: a rooms table without the UNIQUE constraint on code)
AnyCode(c) == TRUE

\* code TEXT NOT NULL UNIQUE: the insert of a room is refused when a room has
\* the code already
UniqueCode(c) == c \notin ExistingCodes

\* a handler returns: its locals are gone, and the lobby's state with it when
\* onJoinRoom has replaced the lobby by the game screen
Done(rec) ==
  IF rec.at = 0
    THEN [rec EXCEPT !.room = 0, !.full = 0, !.code = NoCode]
    ELSE [IdleClient EXCEPT !.pc = rec.pc, !.at = rec.at, !.toast = rec.toast]

\* (variant of Finally: the flags are left as they are)
FinallyKept(rec) == Done(rec)

\* the finally blocks of createRoom and joinRoomByCode
Finally(rec) == Done([rec EXCEPT !.isCreating = FALSE, !.isJoining = FALSE])

\* loadRooms: the rooms that have a player row (room_players!inner), each with
\* the number of its online players as player_count
LoadRooms(c) ==
  /\ lc[c].pc = "idle"
  /\ lc' = [lc EXCEPT ![c].list =
              {[id |-> i, player_count |-> OnlineCount(i)] :
                 i \in {j \in DOMAIN lRooms : RowCount(j) > 0}}]
  /\ lc'[c] # lc[c]
  /\ UNCHANGED lRooms
  /\ LobbyOnly

\* createRoom up to the rpc
CreateRoom(c) ==
  /\ lc[c].pc = "idle"
  /\ Len(lRooms) < MaxRooms
  /\ lc' = [lc EXCEPT ![c] = [@ EXCEPT !.pc = "code", !.isCreating = TRUE,
                                       !.toast = "none", !.room = 0, !.full = 0]]
  /\ UNCHANGED lRooms
  /\ LobbyOnly

\* generate_room_code: a code that no room has at this moment
GenerateRoomCode(c, k) ==
  /\ lc[c].pc = "code"
  /\ Code(k, TRUE) \notin ExistingCodes
  /\ lc' = [lc EXCEPT ![c] = [@ EXCEPT !.pc = "room", !.code = Code(k, TRUE)]]
  /\ UNCHANGED lRooms
  /\ LobbyOnly

\* (variant of NewRoom: the room starts in status playing)
NewRoomPlaying(code) ==
  [code |-> code, status |-> "playing", max_players |-> MAX_PLAYERS,
   rows |-> {}, on |-> {}, res |-> 0, resOn |-> 0]

\* the row that createRoom and createNewRoomWhenFull insert into rooms; it has
\* no players yet
NewRoom(code) ==
  [code |-> code, status |-> "waiting", max_players |-> MAX_PLAYERS,
   rows |-> {}, on |-> {}, res |-> 0, resOn |-> 0]

\* the insert into rooms of createRoom and createNewRoomWhenFull, and the catch
\* block when it is refused
InsertRoom(c, net) ==
  /\ lc[c].pc = "room"
  /\ net /\ UniqueCode(lc[c].code) => Len(lRooms) < MaxRooms
  /\ IF net /\ UniqueCode(lc[c].code)
       THEN /\ lRooms' = Append(lRooms, NewRoom(lc[c].code))
            /\ lc' = [lc EXCEPT ![c] = [@ EXCEPT !.pc = "player", !.room = Len(lRooms) + 1,
                         !.toast = IF lc[c].full = 0 THEN "created" ELSE "newroom"]]
       ELSE /\ lc' = [lc EXCEPT ![c] = Finally([@ EXCEPT !.pc = "idle",
                         !.toast = IF lc[c].full = 0 THEN "error" ELSE "fullerror"])]
            /\ UNCHANGED lRooms
  /\ LobbyOnly

\* the insert into room_players of the lobby (UNIQUE(room_id, user_id)), the
\* system message and onJoinRoom, or the catch block
InsertPlayer(c) ==
  /\ lc[c].pc = "player"
  /\ LET i == lc[c].room IN
       IF c \notin lRooms[i].rows
         THEN /\ lRooms' = [lRooms EXCEPT ![i].rows = @ \cup {c}, ![i].on = @ \cup {c}]
              /\ lc' = [lc EXCEPT ![c] = Finally([@ EXCEPT !.pc = "game", !.at = i])]
         ELSE /\ lc' = [lc EXCEPT ![c] = Finally([@ EXCEPT !.pc = "idle",
                           !.toast = IF lc[c].full = 0 THEN "error" ELSE "fullerror"])]
              /\ UNCHANGED lRooms
  /\ LobbyOnly

\* joinRoomByCode up to the select of the room; an empty input only shows a
\* toast
JoinRoomByCode(c, typed) ==
  /\ lc[c].pc = "idle"
  /\ lc' = [lc EXCEPT ![c] =
              IF typed = NoCode
                THEN [@ EXCEPT !.toast = "required"]
                ELSE [@ EXCEPT !.pc = "find", !.isJoining = TRUE, !.toast = "none",
                               !.code = ToUpperCase(typed), !.room = 0, !.full = 0]]
  /\ lc'[c] # lc[c]
  /\ UNCHANGED lRooms
  /\ LobbyOnly

\* the select of the room by code and, when there is none, the toast and the
\* return through finally
FindRoom(c) ==
  /\ lc[c].pc = "find"
  /\ LET found == {i \in DOMAIN lRooms : lRooms[i].code = lc[c].code} IN
       IF found = {}
         THEN lc' = [lc EXCEPT ![c] = Finally([@ EXCEPT !.pc = "idle", !.toast = "notfound"])]
         ELSE \E i \in found : lc' = [lc EXCEPT ![c] = [@ EXCEPT !.pc = "count", !.room = i]]
  /\ UNCHANGED lRooms
  /\ LobbyOnly

\* the count of the room's rows against max_players; a full room leads into
\* createNewRoomWhenFull
CountPlayers(c) ==
  /\ lc[c].pc = "count"
  /\ LET i == lc[c].room IN
       lc' = [lc EXCEPT ![c] =
                IF RowCount(i) >= lRooms[i].max_players
                  THEN [@ EXCEPT !.pc = "code", !.full = i]
                  ELSE [@ EXCEPT !.pc = "existing"]]
  /\ UNCHANGED lRooms
  /\ LobbyOnly

\* joinRoom with a room of the list: player_count of the list against
\* max_players.  The button of a room is disabled while the list shows the
\* room as full
JoinRoom(c, e) ==
  /\ lc[c].pc = "idle"
  /\ e \in lc[c].list
  /\ e.player_count < lRooms[e.id].max_players
  /\ lc' = [lc EXCEPT ![c] =
              IF e.player_count >= lRooms[e.id].max_players
                THEN [@ EXCEPT !.pc = "code", !.full = e.id, !.room = e.id, !.toast = "none"]
                ELSE [@ EXCEPT !.pc = "existing", !.full = 0, !.room = e.id, !.toast = "none"]]
  /\ UNCHANGED lRooms
  /\ LobbyOnly

\* "Check if already in room" with the update of is_online and onJoinRoom when
\* the row exists
ExistingPlayer(c) ==
  /\ lc[c].pc = "existing"
  /\ LET i == lc[c].room IN
       IF c \in lRooms[i].rows
         THEN /\ lRooms' = [lRooms EXCEPT ![i].on = @ \cup {c}]
              /\ lc' = [lc EXCEPT ![c] = Finally([@ EXCEPT !.pc = "game", !.at = i])]
         ELSE /\ lc' = [lc EXCEPT ![c] = [@ EXCEPT !.pc = "player"]]
              /\ UNCHANGED lRooms
  /\ LobbyOnly

\* loadPlayers of the game screen that onJoinRoom mounted: the own row among
\* the online rows is updated, otherwise a row is inserted
GameLoadPlayers(c) ==
  /\ lc[c].pc = "game"
  /\ LET i == lc[c].at IN
       lRooms' = IF c \in lRooms[i].on \/ c \in lRooms[i].rows
                   THEN lRooms
                   ELSE [lRooms EXCEPT ![i].rows = @ \cup {c}, ![i].on = @ \cup {c}]
  /\ lc' = [lc EXCEPT ![c].pc = "play"]
  /\ LobbyOnly

\* leaveRoom of the game screen; the lobby mounts again
GameLeaveRoom(c) ==
  /\ lc[c].pc = "play"
  /\ lRooms' = [lRooms EXCEPT ![lc[c].at].on = @ \ {c}]
  /\ lc' = [lc EXCEPT ![c] = IdleClient]
  /\ LobbyOnly

\* a user who is not followed joins the room from a lobby, in one piece
ResidentJoins(i) ==
  /\ i \in DOMAIN lRooms
  /\ RowCount(i) < lRooms[i].max_players
  /\ lRooms' = [lRooms EXCEPT ![i].res = @ + 1, ![i].resOn = @ + 1]
  /\ UNCHANGED lc
  /\ LobbyOnly

\* such a user leaves: the row stays, with is_online false
ResidentLeaves(i) ==
  /\ i \in DOMAIN lRooms
  /\ lRooms[i].resOn > 0
  /\ lRooms' = [lRooms EXCEPT ![i].resOn = @ - 1]
  /\ UNCHANGED lc
  /\ LobbyOnly

\* ------------------------------------------------------------ specification
Next ==
  \/ OpenMulti
  \/ CloseMulti
  \/ RoomNotify
  \/ PlayerNotify
  \/ \E load \in loads : LoadApply(load)
  \/ LeaveRoom
  \/ OtherDelivers
  \/ OtherOnline
  \/ OtherStartGame
  \/ OtherEndGame
  \/ \E k \in KittySpots : Frame(k)
  \/ \E dt \in ClockSteps : Tick(dt)
  \/ ReportDone
  \/ ReportFail
  \/ \E i \in 1..MaxDelivers : DeliverWrite(i)
  \/ \E i \in 1..MaxDelivers : DeliverDone(i)
  \/ \E i \in 1..MaxDelivers : DeliverDrop(i)
  \/ \E lvl \in Levels : AdvanceTimer(lvl)
  \/ StartGame
  \/ \E lvl \in Levels : StartGameDone(lvl)
  \/ TimerTick
  \/ EndGameWrite
  \/ EndGameDone
  \/ Render
  \/ OpenSingle
  \/ CloseSingle
  \/ GameStart
  \/ GameReset
  \/ \E k \in SKittySpots(sCurrentLevel) : GameFrame(k)
  \/ GameTick
  \/ GameRender
  \/ \E mode \in {"single", "multi"}, lvl \in 0..(NumLevels - 1) : PhysStart(mode, lvl)
  \/ \E lvl \in 0..(NumLevels - 1) : PhysLevel(lvl)
  \/ \E dir \in Dirs, jump \in BOOLEAN : PhysTick(dir, jump)
  \/ PhysStop
  \/ \E dir \in Dirs : OtherTick(dir)
  \/ OtherReport
  \/ \E c \in Clients : LoadRooms(c)
  \/ \E c \in Clients : CreateRoom(c)
  \/ \E c \in Clients, k \in 1..NumCodes : GenerateRoomCode(c, k)
  \/ \E c \in Clients, net \in BOOLEAN : InsertRoom(c, net)
  \/ \E c \in Clients : InsertPlayer(c)
  \/ \E c \in Clients, k \in 0..NumCodes, up \in BOOLEAN : JoinRoomByCode(c, Code(k, up))
  \/ \E c \in Clients : FindRoom(c)
  \/ \E c \in Clients : CountPlayers(c)
  \/ \E c \in Clients : \E e \in lc[c].list : JoinRoom(c, e)
  \/ \E c \in Clients : ExistingPlayer(c)
  \/ \E c \in Clients : GameLoadPlayers(c)
  \/ \E c \in Clients : GameLeaveRoom(c)
  \/ \E i \in 1..MaxRooms : ResidentJoins(i)
  \/ \E i \in 1..MaxRooms : ResidentLeaves(i)

Spec == Init /\ [][Next]_vars

\* ------------------------------------------------------- scenario: carrying
\* One multiplayer session of A from the lobby on, with the change feed live.
\* Scope of the scenario: the second player joins or leaves while the room is
\* waiting, the start button is not pressed again during a started game, frames
\* are followed once the start handshake has settled, and position reports are
\* left to the throttle scenario (Date.now() is not followed, so one report
\* is sent and stays in flight).  The single-player game is played without its
\* countdown.
NextCarry ==
  \/ OpenMulti
  \/ RoomNotify
  \/ PlayerNotify
  \/ \E load \in loads : LoadApply(load)
  \/ OtherOnline /\ dbStatus = "waiting"
  \/ \E k \in KittySpots : Frame(k) /\ roomFeed = <<>> /\ startPhase = "idle"
  \/ \E i \in 1..MaxDelivers : DeliverWrite(i)
  \/ \E i \in 1..MaxDelivers : DeliverDone(i)
  \/ \E lvl \in Levels : AdvanceTimer(lvl)
  \/ StartGame /\ ~gameStarted
  \/ \E lvl \in Levels : StartGameDone(lvl)
  \/ Render
  \/ OpenSingle
  \/ GameStart
  \/ GameReset
  \/ \E k \in SKittySpots(sCurrentLevel) : GameFrame(k)
  \/ GameRender

SpecCarry == Init /\ [][NextCarry]_vars

\* the countdown is between its first and its last LateTicks seconds; the
\* scenarios with a countdown follow nothing but the countdown then
MidCountdown == LateTicks < timeLeft /\ timeLeft < ROUND_TIME

SMidCountdown == LateTicks < sTimeLeft /\ sTimeLeft < START_TIME

\* no request or notification is on its way and the screen is rendered; the
\* scenarios with a countdown let its first second pass in such a state
Settled ==
  /\ roomFeed = <<>> /\ loads = {} /\ delivers = <<>> /\ timers = <<>>
  /\ startPhase = "idle" /\ endPhase = "idle"
  /\ ~NeedsRender

\* ----------------------------------------------------- scenario: throttle
\* A started multiplayer game whose player stands at the spawn point while
\* Date.now() moves on between the frames, from the first frame on; the
\* reports succeed or fail.
NextThrottle ==
  \/ OpenMulti
  \/ RoomNotify
  \/ PlayerNotify
  \/ \E load \in loads : LoadApply(load)
  \/ StartGame /\ ~gameStarted
  \/ \E lvl \in Levels : StartGameDone(lvl)
  \/ Render
  \/ Frame(KittyStart) /\ roomFeed = <<>> /\ startPhase = "idle"
  \/ \E dt \in ClockSteps : Tick(dt) /\ lastCall # "none"
  \/ ReportDone
  \/ ReportFail

SpecThrottle == Init /\ [][NextThrottle]_vars

\* --------------------------------------------------------- scenario: room
\* The life of the room row: A enters and leaves, the second player comes and
\* goes, games are started and run out of time; no frame runs.
NextRoom ==
  \/ OpenMulti /\ ~MidCountdown
  \/ CloseMulti /\ ~MidCountdown
  \/ LeaveRoom /\ ~MidCountdown
  \/ RoomNotify /\ ~MidCountdown
  \/ PlayerNotify /\ ~MidCountdown
  \/ \E load \in loads : LoadApply(load) /\ ~MidCountdown
  \/ OtherOnline /\ ~MidCountdown
  \/ StartGame /\ ~MidCountdown
  \/ \E lvl \in Levels : StartGameDone(lvl) /\ ~MidCountdown
  \/ TimerTick /\ (timeLeft < ROUND_TIME \/ Settled)
  \/ EndGameWrite /\ ~MidCountdown
  \/ EndGameDone /\ ~MidCountdown
  \/ Render /\ ~MidCountdown

SpecRoom == Init /\ [][NextRoom]_vars

\* ------------------------------------------------------ scenario: timeout
\* A enters the room after B, who stays online and delivers nothing; A moves
\* in the last second of a countdown only; the player list is the one read
\* when the screen mounted.
NextTimeout ==
  \/ OtherOnline /\ screen = "menu"
  \/ OpenMulti /\ dbOnline[Other]
  \/ RoomNotify /\ ~MidCountdown
  \/ \E load \in loads : LoadApply(load) /\ ~MidCountdown
  \/ \E k \in KittySpots : Frame(k) /\ timeLeft = LateTicks /\ roomFeed = <<>> /\ startPhase = "idle"
  \/ \E i \in 1..MaxDelivers : DeliverWrite(i) /\ ~MidCountdown
  \/ \E i \in 1..MaxDelivers : DeliverDone(i) /\ ~MidCountdown
  \/ \E lvl \in Levels : AdvanceTimer(lvl) /\ ~MidCountdown
  \/ StartGame /\ ~gameStarted /\ ~MidCountdown
  \/ \E lvl \in Levels : StartGameDone(lvl) /\ ~MidCountdown
  \/ TimerTick /\ (timeLeft < ROUND_TIME \/ Settled)
  \/ EndGameWrite /\ ~MidCountdown
  \/ EndGameDone /\ ~MidCountdown
  \/ Render /\ ~MidCountdown

SpecTimeout == Init /\ [][NextTimeout]_vars

\* --------------------------------------------------------- scenario: loops
\* Both screens are opened, played, stopped and closed; the multiplayer
\* player stays at the spawn point.
NextLoop ==
  \/ OpenMulti /\ ~MidCountdown
  \/ CloseMulti /\ ~MidCountdown
  \/ RoomNotify /\ ~MidCountdown
  \/ PlayerNotify /\ ~MidCountdown
  \/ \E load \in loads : LoadApply(load) /\ ~MidCountdown
  \/ StartGame /\ ~MidCountdown
  \/ \E lvl \in Levels : StartGameDone(lvl) /\ ~MidCountdown
  \/ TimerTick /\ (timeLeft < ROUND_TIME \/ Settled)
  \/ EndGameWrite /\ ~MidCountdown
  \/ EndGameDone /\ ~MidCountdown
  \/ Frame(KittyStart) /\ ~MidCountdown
  \/ ReportFail /\ ~MidCountdown
  \/ Render /\ ~MidCountdown
  \/ OpenSingle /\ ~SMidCountdown
  \/ CloseSingle /\ ~SMidCountdown
  \/ GameStart /\ ~SMidCountdown
  \/ GameReset /\ ~SMidCountdown
  \/ \E k \in SKittySpots(sCurrentLevel) : GameFrame(k) /\ ~SMidCountdown
  \/ GameTick /\ (sTimeLeft < START_TIME \/ ~SNeedsRender)
  \/ GameRender /\ ~SMidCountdown

SpecLoop == Init /\ [][NextLoop]_vars

\* ------------------------------------------------------ scenario: physics
\* The player of one loop from its start on.  The jump key changes on any tick;
\* the direction keys change only on the first tick, or after a landing with the
\* player at a wall or at a multiple of KeyGrid, and are released only while the
\* player has no horizontal speed.
KeyGrid == 50 * Scale

Airborne == pt # NoTick /\ pt.fired = {} /\ ~pt.fell

AtKeyPoint ==
  \/ pt = NoTick
  \/ ~Airborne /\ (pk.x % KeyGrid = 0 \/ pk.x = CANVAS_WIDTH - PW)

KeysKept(dir, jump) ==
  /\ ~AtKeyPoint => dir = pt.dir
  /\ dir = "none" => pk.vx = 0

NextPhys ==
  \/ \E mode \in {"single", "multi"} :
       PhysStart(mode, IF mode = "single" THEN 0 ELSE MultiLevel)
  \/ \E lvl \in 0..MaxPhysLevel : pm = "single" /\ PhysLevel(lvl)
  \/ \E dir \in Dirs, jump \in BOOLEAN : KeysKept(dir, jump) /\ PhysTick(dir, jump)
  \/ PhysStop

SpecPhys == Init /\ [][NextPhys]_vars

\* ------------------------------------------------ scenario: own entity
\* A mounted multiplayer game whose player walks right and jumps while the
\* other player joins and leaves; the notifications and the reloads of the
\* player list are handled while the player is in motion.
InMotion == pm = "multi" /\ (pk.vx # 0 \/ pk.vy # 0)

NextOwn ==
  \/ OpenMulti
  \/ OtherOnline /\ screen = "multi"
  \/ InMotion /\ RoomNotify
  \/ InMotion /\ PlayerNotify
  \/ \E load \in loads : InMotion /\ LoadApply(load)
  \/ screen = "multi" /\ PhysStart("multi", MultiLevel)
  \/ \E dir \in Dirs \ {"left"}, jump \in BOOLEAN :
       /\ KeysKept(dir, jump)
       /\ Airborne => jump = pt.jump
       /\ PhysTick(dir, jump)

SpecOwn == Init /\ [][NextOwn]_vars

\* --------------------------------------------------- scenario: remote view
\* The other player is in the room when this client enters it; it walks right
\* on the floor, lets the key go and reports positions, and this client reloads
\* the player list on the notifications.
NextView ==
  \/ OtherOnline /\ screen = "menu" /\ ~dbOnline[Other]
  \/ OpenMulti /\ dbOnline[Other]
  \/ RoomNotify
  \/ PlayerNotify
  \/ \E load \in loads : LoadApply(load)
  \/ \E dir \in {"right", "none"} : OtherTick(dir)
  \/ OtherReport

SpecView == Init /\ [][NextView]_vars

\* ------------------------------------------------------------------ claims
\* a step of the delayed advance of deliverFish (its timer fires)
DelayedAdvanceStep == Len(timers') < Len(timers) /\ screen' = "multi"

\* a step of startNextRound (the only other step that moves the round counter
\* while endGame is not completing)
NextRoundStep ==
  /\ currentRound' # currentRound
  /\ timers' = timers
  /\ endPhase' = endPhase
  /\ screen = "multi" /\ screen' = "multi"

Available(fish) == ~fish.collected /\ fish.carriedBy = Null

\* C1: the round counter increases only in a state where every online player
\* of the room has fish_collected >= the current round number.
C1_RoundNeedsQuota ==
  [][currentRound' > currentRound =>
       \A u \in Users : dbOnline[u] => dbFish[u] >= currentRound]_vars

\* a step in which an update of fish_collected issued by deliverFish is stored
FishWriteStep ==
  /\ Len(delivers') = Len(delivers)
  /\ \E i \in 1..Len(delivers) :
       delivers[i].ph = "sent" /\ delivers'[i].ph = "written"

\* a step in which a response of deliverFish marks the carried fish delivered
DeliveryCompletes ==
  /\ carriedFish # NoFish /\ carriedFish' = NoFish
  /\ Len(delivers') < Len(delivers)

\* C2: each delivery raises the player's persisted fish_collected by exactly
\* one and schedules exactly one delayed advance: the stored count never
\* exceeds the count at pickup by more than one, it is that count plus one
\* when the delivery completes, and at most one advance is scheduled for the
\* fish that was picked up.
C2_OneCountOneAdvance ==
  [][/\ FishWriteStep => dbFish'[Me] <= carryBase + 1
     /\ DeliveryCompletes => dbFish[Me] = carryBase + 1
     /\ carryTimers' <= 1]_vars

\* C3: after every round advance (startNextRound or the delayed advance) every
\* fish of the selected level is Available, the carry state is none, the round
\* timer is 60 and the round counter has grown by one.
C3_AdvanceResets ==
  [][(DelayedAdvanceStep \/ NextRoundStep) =>
       /\ \A i \in 1..Len(fishes') : Available(fishes'[i])
       /\ carriedFish' = NoFish
       /\ timeLeft' = ROUND_TIME
       /\ currentRound' = currentRound + 1]_vars

\* a step in which the local carry state becomes a fish: a pickup
PickupStep == carriedFish' # NoFish /\ carriedFish' # carriedFish

\* C7: at most one fish of the level is carried by the local player, the carry
\* state names it, and a pickup happens only when the player carries nothing
\* and its box intersects a fish that is neither collected nor carried.
C7_PickupOnlyFreeFish ==
  [][/\ Cardinality({i \in 1..Len(fishes') :
                       fishes'[i].carriedBy = Me /\ ~fishes'[i].collected}) <= 1
     /\ carriedFish' # NoFish =>
          /\ carriedFish' < Len(fishes')
          /\ fishes'[carriedFish' + 1].carriedBy = Me
     /\ PickupStep =>
          /\ carriedFish = NoFish
          /\ carriedFish' < Len(fishes)
          /\ Available(fishes[carriedFish' + 1])
          /\ fishes' = [fishes EXCEPT ![carriedFish' + 1].carriedBy = Me]
          /\ checkCollision(KittyBox(kitty'), LevelFishBox(currentLevel))]_vars

\* C7 witness: a frame has run between a pickup and the re-render that
\* publishes the carry state (the scheduled callback still closes over "none")
C7_StaleFrameAfterPickup ==
  /\ carriedFish # NoFish
  /\ r.carriedFish = NoFish
  /\ raf # <<>> /\ Head(raf).cl.carriedFish = NoFish
  /\ kitty = KittyStart


\* a run of Game's loop callback that moves the player and does nothing else
\* to the session (no start, reset, countdown or render in the same step)
SingleFrameStep ==
  /\ screen = "single" /\ screen' = "single"
  /\ sr' = sr
  /\ sGameStarted' = sGameStarted /\ gameStatus' = gameStatus
  /\ sTimeLeft' = sTimeLeft

\* C8: touching the goal while carrying nothing changes nothing.  Multiplayer:
\* while the local player carries no fish, no deliverFish call is issued (so no
\* fish is marked delivered, no fish_collected write is sent and no advance is
\* scheduled).  Single player: a frame that leaves the player on the scratcher
\* with carriedFish = 0 keeps the fish set, fishCount, score and currentLevel.
C8_EmptyHandedGoal ==
  [][/\ (screen = "multi" /\ carriedFish = NoFish) => Len(delivers') <= Len(delivers)
     /\ (/\ SingleFrameStep
         /\ sCarriedFish = 0
         /\ checkCollision(KittyBox(sKitty'), LevelScratcher(sCurrentLevel)))
          => /\ sFishes' = sFishes
             /\ fishCount' = fishCount
             /\ score' = score
             /\ sCurrentLevel' = sCurrentLevel]_vars

\* the stage of a multiplayer fish: 0 available, 1 carried, 2 delivered
Stage(fish) == IF fish.collected THEN 2 ELSE IF fish.carriedBy # Null THEN 1 ELSE 0

\* a step that starts a level or round of the multiplayer game, or mounts or
\* unmounts the screen
LevelChangeStep ==
  \/ DelayedAdvanceStep
  \/ currentRound' # currentRound
  \/ startPhase' # startPhase
  \/ screen' # screen

\* a step that changes the level of the single-player game or restarts it
SingleLevelChangeStep ==
  \/ sCurrentLevel' # sCurrentLevel
  \/ sGameStarted' # sGameStarted
  \/ gameStatus' # gameStatus
  \/ screen' # screen
  \/ (~sr.gameStarted /\ sGameStarted')

\* C9: within a level or round the state of a fish never moves backwards.
\* Multiplayer: outside a level change the stage of every fish does not
\* decrease, and no fish is carried by the local player while the local carry
\* state is none.  Single player: outside a level change or restart a
\* collected fish stays collected.
C9_FishNeverGoBack ==
  [][/\ (screen = "multi" /\ ~LevelChangeStep) =>
          /\ Len(fishes') = Len(fishes)
          /\ \A i \in 1..Len(fishes) : Stage(fishes'[i]) >= Stage(fishes[i])
     /\ screen' = "multi" =>
          \A i \in 1..Len(fishes') :
            Stage(fishes'[i]) = 1 /\ fishes'[i].carriedBy = Me => carriedFish' # NoFish
     /\ (screen = "single" /\ ~SingleLevelChangeStep) =>
          /\ Len(sFishes') = Len(sFishes)
          /\ \A i \in 1..Len(sFishes) : sFishes[i] => sFishes'[i]]_vars

\* some online player of the room has not collected the round's quota
QuotaUnmet == \E u \in Users : dbOnline[u] /\ dbFish[u] < currentRound

\* C4: the round timer is 60 when startGame completes and goes down by one per
\* tick; the tick that brings it to 0 calls endGame; when endGame completes
\* the room is waiting and gameStarted is false; and from then until startGame
\* completes again the round counter does not increase while the quota is unmet.
C4_TimeoutEndsRounds ==
  [][/\ (startPhase = "written" /\ startPhase' = "idle" /\ screen' = "multi")
          => timeLeft' = ROUND_TIME
     /\ (timeLeft' < timeLeft /\ screen' = "multi")
          => /\ timeLeft' = timeLeft - 1
             /\ r.gameStarted /\ r.room = "playing"
             /\ timeLeft' = 0 => endPhase' # "idle"
     /\ (~sessionOver /\ sessionOver')
          => ~gameStarted' /\ dbStatus' = "waiting"
     /\ (sessionOver /\ sessionOver' /\ QuotaUnmet)
          => currentRound' <= currentRound]_vars

\* C5: the persisted room status changes only from waiting to playing, from
\* playing to completed and from playing to waiting.
C5_StatusTransitions ==
  [][dbStatus' # dbStatus =>
       <<dbStatus, dbStatus'>> \in {<<"waiting", "playing">>,
                                    <<"playing", "completed">>,
                                    <<"playing", "waiting">>}]_vars

\* C6: a position report is sent only when at least 100 ms have passed since
\* the previous report this client sent; every other call is dropped (each
\* request in flight was accepted by the throttle: a dropped call sends
\* nothing later), whatever became of the earlier requests.
C6_ReportsThrottled ==
  [][reports' > reports =>
       /\ reports' = reports + 1
       /\ sentAt' = now
       /\ sentAt = 0 \/ now - sentAt >= THROTTLE_MS]_vars

\* C6 witness: two reports are in flight and a later call was dropped
C6_DroppedWhilePending == reports = 2 /\ lastCall = "dropped"

MultiStopped == screen # "multi" \/ ~gameStarted

SingleStopped == screen # "single" \/ ~sGameStarted \/ gameStatus # "playing"

\* C10: each screen has at most one animation-frame callback scheduled, and
\* none while its game is stopped (multiplayer: gameStarted false or unmounted;
\* single player: gameStatus not 'playing', reset, or unmounted), so that no
\* tick runs after the stop.
C10_NoLoopAfterStop ==
  /\ Len(raf) <= 1 /\ Len(sRaf) <= 1
  /\ MultiStopped => raf = <<>>
  /\ SingleStopped => sRaf = <<>>

\* ----------------------------------------------------------- physics claims
\* a step of the physics of one tick (a tick that changes nothing is a
\* stuttering step)
PhysTickStep ==
  /\ pm # "off" /\ pm' = pm /\ pl' = pl /\ pt' # NoTick
  /\ (pk' # pk \/ pt' # pt)

\* the player's bottom edge is within the jump tolerance of the top of a platform
\* it overlaps horizontally, or within it of the world floor in multiplayer
NearGround ==
  LET plats == Platforms(pm, pl)
      bottom == pk.y + PH
  IN \/ \E i \in 1..Len(plats) :
          /\ pk.x < plats[i].x + plats[i].width
          /\ pk.x + PW > plats[i].x
          /\ IF pm = "single" THEN Abs(bottom - plats[i].y) < 5 * Scale
                              ELSE Abs(bottom - plats[i].y) <= 10 * Scale
     \/ pm = "multi" /\ bottom >= CANVAS_HEIGHT(pm) - 5 * Scale

\* |vy| is below the jump threshold: 0.1 in single player, 2 in multiplayer
BelowThreshold == IF pm = "single" THEN Abs(pk.vy) < 1 ELSE Abs(pk.vy) < 2 * Scale

\* C11: a tick applies the jump impulse only if the jump key is held, the
\* pre-jump |vy| is below the threshold and the grounded check passes; in every
\* other tick the jump step leaves vy unchanged, so a tick that neither lands
\* nor respawns ends with the old vy plus gravity.
C11_JumpGated ==
  [][PhysTickStep =>
       /\ pt'.imp => pt'.jump /\ BelowThreshold /\ NearGround
       /\ pt'.fired = {} /\ ~pt'.fell =>
            pk'.vy = (IF pt'.imp THEN JUMP_FORCE(pm) ELSE pk.vy) + GRAVITY(pm)]_vars

\* a multiplayer tick applied the impulse
C11_Jumped == pm = "multi" /\ pt.imp /\ pk.vy = JUMP_FORCE("multi") + GRAVITY("multi")

\* C12: in the multiplayer loop, with the jump key held on every tick since a
\* jump impulse, no further impulse is applied before the player has landed
\* (a tick in which platform resolution snapped it onto a platform).
C12_NoAirJumpMulti ==
  [][PhysTickStep /\ pm = "multi" /\ pt'.imp => air # "held"]_vars

C14_LandingSnaps ==
  [][PhysTickStep /\ pt'.fired # {} =>
       /\ pk'.vy = 0
       /\ \A i \in pt'.fired : pk'.y + PH = Platforms(pm, pl)[i].y]_vars

\* the last tick landed the player on a platform above the floor platform
C14_LandedAbove ==
  /\ pm # "off"
  /\ \E i \in pt.fired : i > 1 /\ pk.y + PH = Platforms(pm, pl)[i].y /\ pk.vy = 0

\* the vy with which the tick moves the player: vy after the jump step plus
\* gravity
MoveSpeed == (IF pt'.imp THEN JUMP_FORCE(pm) ELSE pk.vy) + GRAVITY(pm)

\* C15: the player is snapped onto a platform's top only if it moves downward
\* (vy > 0) and its bottom edge was at or above the platform's top before the
\* position update of the tick.
C15_OnlyFromAbove ==
  [][PhysTickStep =>
       \A i \in pt'.fired :
         MoveSpeed > 0 /\ pk.y + PH <= Platforms(pm, pl)[i].y]_vars

\* the vx with which the tick moves the player
MoveSpeedX ==
  IF pt'.dir = "left" THEN -MOVE_SPEED(pm)
  ELSE IF pt'.dir = "right" THEN MOVE_SPEED(pm)
  ELSE (pk.vx * 4) \div 5

\* the player's box after the position update of the tick, before the platform
\* loop
MovedBox ==
  [x |-> pk.x + MoveSpeedX, y |-> pk.y + MoveSpeed, width |-> PW, height |-> PH]

\* platform i is touched from the side or from below: the moved box overlaps it
\* while vy <= 0, or while the player's top edge is at or below the platform's top
SideContact(i) ==
  /\ checkCollision(MovedBox, Platforms(pm, pl)[i])
  /\ (MoveSpeed <= 0 \/ MovedBox.y >= Platforms(pm, pl)[i].y)

\* C16: side and underside contacts are not resolved: a platform overlapped
\* while vy <= 0 after gravity, or while the player's top edge is at or below
\* the platform's top, does not take the landing branch, and when no other
\* platform takes it the platform loop leaves x, y, vx and vy as the position
\* update left them (x up to the boundary check that follows).
C16_SideContactsPass ==
  [][PhysTickStep =>
       \A i \in 1..Len(Platforms(pm, pl)) :
         SideContact(i) =>
           /\ i \notin pt'.fired
           /\ pt'.fired = {} =>
                /\ pk'.y = MovedBox.y /\ pk'.vy = MoveSpeed /\ pk'.vx = MoveSpeedX
                /\ pk'.x = Max({0, Min(MovedBox.x, CANVAS_WIDTH - PW)})]_vars

\* the player is inside a platform on its way up
C16_RisingThrough ==
  /\ pm # "off" /\ pt # NoTick /\ pt.fired = {} /\ pk.vy < 0
  /\ \E i \in 1..Len(Platforms(pm, pl)) : checkCollision(PBox(pk), Platforms(pm, pl)[i])

\* the player stands on platform i and the tick neither jumps nor walks it off
\* the platform
StandsOn(i) ==
  LET p == Platforms(pm, pl)[i]
  IN /\ pk.vy = 0 /\ pk.y + PH = p.y /\ ~pt'.imp
     /\ MovedBox.x < p.x + p.width /\ MovedBox.x + PW > p.x

\* C17: gravity is applied in every tick: the position update uses the vy after
\* the jump step plus GRAVITY.  A tick that neither lands nor respawns ends
\* with that vy, however large, and with y moved by it; a landing is a landing
\* of the box moved by it; a standing player is pulled into its platform and
\* landed again.
C17_GravityEveryTick ==
  [][PhysTickStep =>
       /\ pt'.fired = {} /\ ~pt'.fell =>
            pk'.vy = MoveSpeed /\ pk'.y = pk.y + MoveSpeed
       /\ \A i \in pt'.fired : checkCollision(MovedBox, Platforms(pm, pl)[i])
       /\ \A i \in 1..Len(Platforms(pm, pl)) : StandsOn(i) => i \in pt'.fired]_vars

\* the player falls faster than it jumps
C17_FastFall ==
  pm # "off" /\ pt # NoTick /\ pt.fired = {} /\ ~pt.fell /\ pk.vy > -JUMP_FORCE(pm)

\* C18: while a loop runs, at the end of every tick and after every start,
\* level change and respawn the player's x lies between 0 and the world width
\* minus the player's width.
C18_InsideWalls ==
  pm # "off" => 0 <= pk.x /\ pk.x <= CANVAS_WIDTH - PW

\* the multiplayer player walked into the left wall: its steps of 6 px from
\* x = 100 pass from 4 to -2, and the boundary check put it at 0
C18_AtLeftWall == pm = "multi" /\ pk.x = 0 /\ pt.dir = "left" /\ pk.vx < 0

\* a step of the rooms channel handler, of the room_players channel handler, or
\* of loadPlayers from the response of its select on
RoomNotifyStep == screen' = "multi" /\ Len(roomFeed') < Len(roomFeed)

PlayerNotifyStep == screen' = "multi" /\ playerFeed /\ ~playerFeed'

ReloadStep == screen' = "multi" /\ Cardinality(loads') < Cardinality(loads)

\* C20: no room notification, no player notification and no reload of the
\* player list changes the local player's x, y, vx or vy.
C20_OwnEntityKept ==
  [][RoomNotifyStep \/ PlayerNotifyStep \/ ReloadStep => pk' = pk /\ kitty' = kitty]_vars

\* a reloaded player list with the other player in it is in the cache while the
\* local player is in the air
C20_ReloadedInFlight ==
  /\ pm = "multi" /\ pk.vy < 0 /\ pk.vx > 0
  /\ playersDirty /\ players[Other] # Absent /\ room # Null

\* C21: the position this client holds for the other player is always a
\* position the other player reported, or the default of the columns before
\* any report.
C21_ViewIsReported ==
  screen = "multi" /\ players[Other] # Absent => seen \in oSent \cup {DefaultPos}

\* C22: this user's is_online changes from false to true only when the user
\* joins the room (the game screen opens); after leaveRoom has set it to false
\* no reload of the player list sets it back.
C22_OnlineOnlyOnJoin ==
  [][~dbOnline[Me] /\ dbOnline'[Me] => screen = "menu" /\ screen' = "multi"]_vars

\* --------------------------------------------------------- scenario: lobby
\* Two clients in the lobby and the users of the first room, of whom at most
\* one has left.  A client's list of rooms is the one loaded when its lobby
\* mounted, and the second client stays in the room it entered; the codes typed are the first code in lower case, the last code and
\* the empty input.
TypedCodes == {NoCode, Code(1, FALSE), Code(NumCodes, TRUE)}

NextLobby ==
  \/ \E c \in Clients : LoadRooms(c) /\ lc[c].list = {}
  \/ \E c \in Clients : CreateRoom(c)
  \/ \E c \in Clients, k \in 1..NumCodes : GenerateRoomCode(c, k)
  \/ \E c \in Clients, net \in BOOLEAN : InsertRoom(c, net)
  \/ \E c \in Clients : InsertPlayer(c)
  \/ \E c \in Clients, typed \in TypedCodes : JoinRoomByCode(c, typed)
  \/ \E c \in Clients : FindRoom(c)
  \/ \E c \in Clients : CountPlayers(c)
  \/ \E c \in Clients : \E e \in lc[c].list : JoinRoom(c, e)
  \/ \E c \in Clients : ExistingPlayer(c)
  \/ \E c \in Clients : GameLoadPlayers(c)
  \/ GameLeaveRoom(1)
  \/ ResidentJoins(1)
  \/ ResidentLeaves(1) /\ lRooms[1].resOn = lRooms[1].res

SpecLobby == Init /\ [][NextLobby]_vars

\* C23: no room ever holds more player records than its max_players.
C23_RoomNeverOverfull ==
  \A i \in DOMAIN lRooms : RowCount(i) <= lRooms[i].max_players

\* the step is taken by client c while createNewRoomWhenFull(f) runs for it
InNewRoomWhenFull(c, f) == lc[c].full = f /\ f # 0

\* C24: a join that finds the room full never adds the user to that room; when
\* it ends with the user in a room, that is a new room in status waiting whose
\* code no other room has, the user has an online row in it and no error was
\* reported; an error is reported only by a step in which an insert of the
\* creation failed, and then the user enters no room.
C24_FullRoomGivesNewRoom ==
  [][\A c \in Clients : \A f \in DOMAIN lRooms :
       /\ lc[c].full = 0 /\ lc'[c].full = f =>
            RowCount(f) >= lRooms[f].max_players /\ lRooms' = lRooms
       /\ InNewRoomWhenFull(c, f) =>
            /\ (c \in lRooms'[f].rows) = (c \in lRooms[f].rows)
            /\ lc'[c].at # 0 =>
                 LET n == lc'[c].at IN
                   /\ n # f /\ n = lc[c].room /\ lc[c].pc = "player"
                   /\ lRooms'[n].status = "waiting"
                   /\ \A j \in DOMAIN lRooms' : j # n => lRooms'[j].code # lRooms'[n].code
                   /\ c \in lRooms'[n].rows /\ c \in lRooms'[n].on
                   /\ lc'[c].toast = "newroom"
            /\ lc'[c].toast = "fullerror" =>
                 /\ lc[c].pc \in {"room", "player"}
                 /\ lRooms' = lRooms
                 /\ lc'[c].at = 0]_vars

\* a client is in the new room that its join of the full first room created
C24_EnteredNewRoom ==
  \E c \in Clients :
    /\ lc[c].at = 2 /\ lc[c].toast = "newroom"
    /\ RowCount(1) >= MAX_PLAYERS /\ c \in lRooms[2].on

\* joinRoomByCode of client c has sent its select and no room has the code
UnknownCode(c) ==
  lc[c].pc = "find" /\ \A i \in DOMAIN lRooms : lRooms[i].code # lc[c].code

\* C25: when the code of joinRoomByCode matches no room, the handler's next
\* step changes no room and no player row, the user enters no room, the
\* "not found" toast is shown, isJoining is false again and the lobby accepts
\* the next action.
C25_UnknownCodeChangesNothing ==
  [][\A c \in Clients :
       UnknownCode(c) /\ lc'[c] # lc[c] =>
         /\ lRooms' = lRooms
         /\ lc'[c].at = 0
         /\ lc'[c].toast = "notfound"
         /\ ~lc'[c].isJoining
         /\ lc'[c].pc = "idle"]_vars

\* a join by an unknown code has ended, with a room in the table
C25_NotFoundShown ==
  \E c \in Clients :
    /\ lc[c].toast = "notfound" /\ lc[c].pc = "idle"
    /\ ~lc[c].isJoining /\ lc[c].at = 0
    /\ lRooms # <<>>

\* C26: no two rooms ever have the same code, and generate_room_code returns
\* only a code that no room has at the moment of its check.
C26_CodesUnique ==
  /\ [](\A i, j \in DOMAIN lRooms : i # j => lRooms[i].code # lRooms[j].code)
  /\ [][\A c \in Clients :
          lc[c].pc = "code" /\ lc'[c].pc = "room" => lc'[c].code \notin ExistingCodes]_vars

\* a client holds a candidate that another client's room took in the meantime
C26_CandidateTaken ==
  \E c \in Clients : lc[c].pc = "room" /\ lc[c].code \in ExistingCodes

\* --------------------------------------------------------- scenario: spawn
\* The loop of Game runs in the first level from the coordinate that kitty is
\* constructed with, and from points to its left at the same height, and no key
\* is pressed.
SpawnXs == {0, 25, 50, 75, 100}
Spawn(x) == [x |-> x * Scale, y |-> SKittyStart.y * Scale, vx |-> 0, vy |-> 0]

InitSpawn ==
  /\ InitButLoop
  /\ pm = "single" /\ pl = 0
  /\ pk \in {Spawn(x) : x \in SpawnXs}
  /\ pt = NoTick /\ air = "none"

NextSpawn ==
  \/ PhysTick("none", FALSE)

SpecSpawn == InitSpawn /\ [][NextSpawn]_vars

\* kitty.current after n ticks without a key (a tick that changes nothing is
\* followed by such ticks only)
RECURSIVE Idle(_, _)
Idle(k, n) ==
  IF n = 0 THEN k
  ELSE LET t == Ticked("single", 0, k, "none", FALSE)
       IN IF t = k THEN k ELSE Idle(t, n - 1)

IdleTicks == 60

\* resting on the ground platform of the first level
OnGround(k) == k.y + PH = 580 * Scale /\ k.vy = 0 /\ k.vx = 0

\* C27: in the first level of Game a player put at (100, 300) with no speed and
\* no key held is, after 60 ticks, on the ground platform (y + height = 580)
\* with vy = 0 and vx = 0, and every later tick without a key leaves it there.
C27_SpawnFallsToGround ==
  LET s == Spawn(pk.x \div Scale) IN
    /\ \E n \in 0..IdleTicks : pk = Idle(s, n)
    /\ OnGround(Idle(s, IdleTicks)) /\ Idle(s, IdleTicks).x = s.x
    /\ OnGround(pk) => Ticked("single", 0, pk, "none", FALSE) = pk

\* the player put at (100, 300) has landed on the ground platform
C27_RestsOnGround ==
  /\ pk.x = SKittyStart.x * Scale /\ OnGround(pk)
  /\ pt.dir = "none" /\ ~pt.jump /\ pt.fired = {1}

\* ------------------------------------------------------ single-player claims
\* the fish of fishes.current with collected = true
Collected(f) == {i \in 1..Len(f) : f[i]}

\* the fish of the levels before level l
RECURSIVE FishBefore(_)
FishBefore(l) == IF l = 0 THEN 0 ELSE FishBefore(l - 1) + Len(LevelFishes(l - 1))

\* a scheduled callback of Game's loop runs: no render, no press of a button and
\* no timer callback (the callback may request itself again, which leaves the
\* queue as it was)
GameFrameStep ==
  /\ screen = "single" /\ screen' = "single"
  /\ sr' = sr /\ sGameStarted' = sGameStarted
  /\ sCurrentLevel' = sCurrentLevel /\ gameStatus' = gameStatus
  /\ sTimeLeft' = sTimeLeft
  /\ sDirty => sDirty'
  /\ sRaf # <<>>

\* C28: a tick of Game's loop marks exactly the uncollected fish that the
\* player's box overlaps, each adds 1 to fishCount and 10 to score, a collected
\* fish adds nothing however long the overlap lasts, and in a running game
\* fishCount is the number of fish of the earlier levels plus the number of
\* collected fish of the current level.
C28_FishCountedOnce ==
  /\ [][GameFrameStep /\ sr.gameStarted /\ Head(sRaf).cl.gameStatus = "playing" =>
          LET new == Collected(sFishes') \ Collected(sFishes) IN
            /\ new = {i \in 1..Len(sFishes) :
                        /\ ~sFishes[i]
                        /\ checkCollision(KittyBox(sKitty'), LevelFishes(sCurrentLevel)[i])}
            /\ Cardinality(new) <= 1
            /\ Collected(sFishes) \subseteq Collected(sFishes')
            /\ fishCount' = fishCount + Cardinality(new)
            /\ new # {} => score' = score + FISH_SCORE]_vars
  /\ [](screen = "single" /\ sGameStarted /\ gameStatus = "playing" =>
          fishCount = FishBefore(sCurrentLevel) + Cardinality(Collected(sFishes)))

\* the first fish of the first level has been collected and the player is
\* still on it
C28_FirstFishCollected ==
  /\ screen = "single" /\ sGameStarted /\ gameStatus = "playing" /\ sCurrentLevel = 0
  /\ sFishes = <<TRUE, FALSE>> /\ fishCount = 1 /\ score = FISH_SCORE
  /\ checkCollision(KittyBox(sKitty), LevelFishes(0)[1])

\* every fish of the current level is collected and the player's box overlaps
\* the scratcher
LevelDone ==
  /\ \A i \in 1..Len(LevelFishes(sCurrentLevel)) : i <= Len(sFishes) /\ sFishes[i]
  /\ checkCollision(KittyBox(sKitty), LevelScratcher(sCurrentLevel))

\* nextLevel is called: the level goes up or the game is won
CompletionStep ==
  /\ screen = "single" /\ screen' = "single"
  /\ \/ sCurrentLevel' > sCurrentLevel
     \/ gameStatus' = "won" /\ gameStatus # "won"

\* C29: currentLevel increases by 1 only, and only when every fish of the
\* current level is collected and the player touches the scratcher; the game is
\* won only when this holds on the last level; and no level is completed
\* twice in a game.
C29_LevelsInOrder ==
  [][CompletionStep =>
       /\ sCurrentLevel' \in {sCurrentLevel, sCurrentLevel + 1}
       /\ LevelDone
       /\ gameStatus' = "won" => sCurrentLevel = LastLevel
       /\ sCurrentLevel \notin sDone]_vars

\* the interval callback of the timer effect runs
TimerStep ==
  /\ screen = "single" /\ screen' = "single"
  /\ sGameStarted' = sGameStarted
  /\ sTimeLeft' < sTimeLeft

\* C30: a second of Game's countdown takes exactly 1 from timeLeft, which is
\* never negative; gameStatus becomes 'lost' exactly in the second that brings
\* timeLeft to 0, and only from 'playing'; and the game is never lost while
\* timeLeft is above 0.
C30_LostAtZero ==
  /\ [][/\ TimerStep =>
            /\ sTimeLeft' = sTimeLeft - 1
            /\ (sTimeLeft' = 0) = (gameStatus' = "lost")
        /\ gameStatus' = "lost" /\ gameStatus # "lost" =>
            TimerStep /\ sTimeLeft' = 0 /\ gameStatus = "playing"]_vars
  /\ [](sTimeLeft >= 0)
  /\ [](screen = "single" /\ gameStatus = "lost" => sTimeLeft = 0)

\* ------------------------------------------------ scenario: a guest's room
\* A is a guest of a room that the other user created: A enters and leaves, the
\* room's creator starts games and lets them run out, and A presses its own
\* start button while its room is waiting.  The handlers of the change feed,
\* the responses of the reads and of the awaited updates and React's re-render
\* are scheduled by the runtime and run when they are due; what the users do
\* is not forced.
InitGuest ==
  /\ InitButRoom
  /\ creator = Other
  /\ dbOnline = [u \in Users |-> u = Other]
  /\ pm = "off" /\ pl = 0 /\ pk = [x |-> 0, y |-> 0, vx |-> 0, vy |-> 0]
  /\ pt = NoTick /\ air = "none"

NextGuest ==
  \/ OpenMulti
  \/ CloseMulti
  \/ RoomNotify
  \/ PlayerNotify
  \/ \E load \in loads : LoadApply(load)
  \/ OtherOnline
  \/ OtherStartGame
  \/ OtherEndGame
  \/ StartGame
  \/ \E lvl \in Levels : StartGameDone(lvl)
  \/ Render

SpecGuest ==
  /\ InitGuest
  /\ [][NextGuest]_vars
  /\ WF_vars(RoomNotify)
  /\ WF_vars(PlayerNotify)
  /\ WF_vars(\E load \in loads : LoadApply(load))
  /\ WF_vars(Render)
  /\ WF_vars(\E lvl \in Levels : StartGameDone(lvl))

\* C31: once the room is playing, the loop starts on every online client: a
\* client that is in the room while it is playing has gameStarted true at some
\* later time, or has left the game screen.
C31_LoopStartsEverywhere ==
  (screen = "multi" /\ dbOnline[Me] /\ dbStatus = "playing")
    ~> (gameStarted \/ screen # "multi")

\* the response of a loadPlayers read that the room_players handler issued
HandlerReloadStep == ReloadStep /\ \A load \in loads \ loads' : load.handler

\* what the users of the room do: enter, leave, press the start button; the
\* other client's game running out
UserStep ==
  OpenMulti \/ CloseMulti \/ OtherOnline \/ OtherStartGame \/ OtherEndGame \/ StartGame

\* no notification is waiting and no read or write of the sync is in flight
Quiet == ~playerFeed /\ loads = {} /\ roomFeed = <<>> /\ startPhase = "idle"

\* C32: the sync quiesces.  Handling a room_players notification raises no
\* further room_players notification, and once the users do nothing more the
\* client reaches a state from which it sends nothing to storage any more.
C32_SyncQuiesces ==
  /\ [][HandlerReloadStep /\ ~playerFeed => ~playerFeed']_vars
  /\ <>[][~UserStep]_vars => <>[]Quiet

\* the player's box at k overlaps the scratcher of the current level
OnScratcher(k) == checkCollision(KittyBox(k), LevelScratcher(sCurrentLevel))

\* what a frame adds to the score beyond the 10 points of each fish it collects
BonusAdded ==
  score' - score - FISH_SCORE * Cardinality(Collected(sFishes') \ Collected(sFishes))

\* C33: the frame of a running game that brings the player onto the scratcher
\* with n > 0 fish carried adds 20 * n to the score, and the frames in which the
\* contact goes on add no bonus.
C33_BonusOncePerContact ==
  [][GameFrameStep /\ sr.gameStarted /\ Head(sRaf).cl.gameStatus = "playing" =>
       /\ ~OnScratcher(sKitty) /\ OnScratcher(sKitty') /\ sCarriedFish > 0 =>
            BonusAdded = DELIVERY_BONUS * sCarriedFish
       /\ OnScratcher(sKitty) /\ OnScratcher(sKitty') => BonusAdded = 0]_vars

\* ------------------------------------------------ scenario: drawn levels
\* The player of one multiplayer loop while initializeLevel replaces the
\* platforms: the game starts in level FirstDrawn and the draws follow
\* LevelDraws.  A level is drawn while the player is in the upper quarter of the
\* canvas, standing on a platform of level 3 or in the second tick of a fall.
\* The direction keys are held as in the physics scenario and the jump key is
\* pressed only in a tick that starts on a platform or follows a draw.
FirstDrawn == 2

LevelDraws == {<<2, 3>>, <<3, 0>>, <<0, 3>>}

DrawMoment ==
  /\ pk.y <= CANVAS_HEIGHT("multi") \div 4
  /\ \/ pk.vy = 2 * GRAVITY("multi")
     \/ pk.vy = 0 /\ pl = 3

NextDraws ==
  \/ PhysStart("multi", FirstDrawn)
  \/ \E lvl \in 0..(NumLevels - 1) :
       pm = "multi" /\ <<pl, lvl>> \in LevelDraws /\ DrawMoment /\ PhysLevel(lvl)
  \/ \E dir \in Dirs, jump \in BOOLEAN :
       KeysKept(dir, jump) /\ (jump => ~Airborne) /\ PhysTick(dir, jump)

SpecDraws == Init /\ [][NextDraws]_vars

\* the top of the ground platform of every level of MultiplayerGame
GroundTop == MPlatforms(0)[1].y * Scale

\* C34: the loop of MultiplayerGame never carries the player through the
\* ground platform: after every tick the player's lower edge is at or above the
\* platform's top, and no tick takes the branch that puts a fallen player back.
C34_NeverThroughGround ==
  pm = "multi" => pk.y + PH <= GroundTop /\ ~pt.fell

\* client c has a player record in the room that its join handler found
Returning(c) == lc[c].room # 0 /\ c \in lRooms[lc[c].room].rows

\* C35: a user who has a player record in a room and joins it again is put
\* back into that room and marked online, whatever the number of the room's
\* records: the capacity test lets the handler go on to the test of the
\* existing record, which enters the room, and no room is inserted.
C35_ReturningPlayerRejoins ==
  [][\A c \in Clients :
       /\ lc[c].pc = "count" /\ Returning(c) /\ lc'[c] # lc[c] =>
            lc'[c].pc = "existing"
       /\ lc[c].pc = "existing" /\ Returning(c) /\ lc'[c] # lc[c] =>
            /\ lc'[c].pc = "game" /\ lc'[c].at = lc[c].room
            /\ c \in lRooms'[lc[c].room].on
            /\ Len(lRooms') = Len(lRooms)]_vars

\* the seconds from which saveGameResult subtracts the time left
SAVE_BASE == 60

\* the row saveGameResult inserts into games; left is the timeLeft of the
\* render that made the callback
saveGameResult(fish, points, left) ==
  [fish_collected |-> fish, score |-> points, time_taken |-> SAVE_BASE - left]

\* a step that ends the running game: nextLevel after the last level, or the
\* timer callback that finds at most one second left
GameEnds == gameStatus = "playing" /\ gameStatus' \in {"won", "lost"}

\* C36: the time_taken that is saved when a game ends, won or lost, is not
\* negative.
C36_TimeTakenNotNegative ==
  [][GameEnds => saveGameResult(fishCount, score, sTimeLeft).time_taken >= 0]_vars

\* the game has ended and the render that shows its end has taken place
EndShown == screen = "single" /\ gameStatus \in {"won", "lost"} /\ sr.gameStatus = gameStatus

\* the step of resetGame or of startGame, or the step that leaves the screen
RestartStep == sGameStarted' # sGameStarted \/ screen' # "single"

\* a step that saves a game result: it sets gameStatus to 'won' or 'lost'
ResultSaved == gameStatus' \in {"won", "lost"} /\ gameStatus' # gameStatus

\* C37: once a single-player game is shown as won or lost, score, fishCount,
\* currentLevel and timeLeft stay as they are and the game does not end a
\* second time until the user restarts, and after resetGame no result is
\* saved before startGame is called.
C37_EndAbsorbing ==
  [][/\ EndShown /\ ~RestartStep =>
          /\ UNCHANGED <<score, fishCount, sCurrentLevel, sTimeLeft>>
          /\ gameStatus' = gameStatus
     /\ ResultSaved /\ screen = "single" => sGameStarted]_vars

\* ------------------------------------------ scenario: reads out of order
\* The other player is in the room when this client enters it, walks right and
\* reports positions; this client has up to MaxLoads + 1 reads of the player
\* list in flight, whose responses arrive in any order.  Every notification is
\* handled and the response of some read arrives as long as one is in flight.
NextConverge ==
  \/ OtherOnline /\ screen = "menu" /\ ~dbOnline[Other]
  \/ OpenMulti /\ dbOnline[Other]
  \/ RoomNotify
  \/ PlayerNotifyWithin(MaxLoads + 1)
  \/ \E load \in loads : LoadApply(load)
  \/ OtherTick("right")
  \/ OtherReport

SpecConverge ==
  /\ Init /\ [][NextConverge]_vars
  /\ WF_vars(PlayerNotifyWithin(MaxLoads + 1))
  /\ WF_vars(\E load \in loads : LoadApply(load))

====
